---- MODULE Spec2Model ----
(***************************************************************************)
(* Capture / transfer pipeline of the veea camera firmware                 *)
(* (device/firmware/src/main.c) and of the companion application's BLE     *)
(* receiver (BleService).                                                  *)
(*                                                                         *)
(* The firmware side is the GATT callbacks (connected, disconnected, the   *)
(* two CCC callbacks, capture_write) and the work handler                  *)
(* capture_work_handler with send_image_metadata and send_image_data,      *)
(* one action per handler or per step of the work handler between two      *)
(* points where the system workqueue thread can be preempted.              *)
(***************************************************************************)
EXTENDS Integers, Sequences, FiniteSets, TLC

(***************************************************************************)
(* Bounds of the model.                                                    *)
(***************************************************************************)
\* connection objects in the stack's pool
MaxConn == 1
\* notifications buffered between the firmware and the receiver
MaxAir == 1
\* size in bytes of the largest frame sent with the default MTU
MaxSize == 41
\* size in bytes of the largest frame streamed with any MTU
MaxStreamSize == 10000

(***************************************************************************)
(* Program constants.                                                      *)
(***************************************************************************)
\* ATT header overhead subtracted from the MTU
ATT_OVERHEAD == 3
\* "max safe notification size"
CHUNK_CAP == 244
\* CCC value that enables notifications
BT_GATT_CCC_NOTIFY == 1
\* capture command byte
CMD_CAPTURE == 1
\* default ATT MTU of a link before any exchange
DEFAULT_MTU == 23
\* largest stored block of the container's data stream
PNG_BLOCK_SIZE == 65535
\* length of the metadata record
META_LEN == 12

NULL == 0
ConnIds == 1..MaxConn

U16 == 65536

\* MTU values a link that is up reports: the default one, the one that
\* makes the chunk exactly CHUNK_CAP, and one above it
MtuSet == {DEFAULT_MTU, CHUNK_CAP + ATT_OVERHEAD, CHUNK_CAP + ATT_OVERHEAD + 1}

\* values a peer writes to a CCC descriptor: none, notify, indicate
CccValues == {0, 1, 2}

\* buffers a peer writes to the capture characteristic
CaptureWrites == {<<>>, <<0>>, <<CMD_CAPTURE>>, <<2>>, <<CMD_CAPTURE, 0>>}

\* error codes of the connected callback: 0 is success
ConnErrs == {0, 62}

(***************************************************************************)
(* Frames the frame source delivers: bytesused bytes of pixel data.        *)
(***************************************************************************)
Image(seed, n) == [i \in 1..n |-> (seed + i - 1) % 256]

\* one byte, one byte more than a default-MTU chunk, the largest
FrameSizes == {1, DEFAULT_MTU - ATT_OVERHEAD + 1, MaxSize}

Frame(n) == [width |-> 256 + n, height |-> n, size |-> n, seed |-> (250 + n) % 256]

Frames == {Frame(n) : n \in FrameSizes}

\* frames around the cap of the chunk size, and a large one
StreamSizes == {1, CHUNK_CAP, CHUNK_CAP + 1, 2 * CHUNK_CAP + 1, MaxStreamSize}

StreamFrames == {Frame(n) : n \in StreamSizes}

Min(a, b) == IF a < b THEN a ELSE b

VARIABLES
  \* firmware globals (main.c:38-48)
  current_conn, image_data_notify_enabled, image_meta_notify_enabled,
  capture_requested,
  \* capture_work: queued on the system workqueue
  work_pending,
  \* the work handler: its position and its locals
  pc, data, size, width, height, ret,
  \* send_image_data: its parameter and locals
  conn, chunk_size, offset,
  \* the stack: state of each connection object, and the references the
  \* application holds on it
  link, refs,
  \* notifications on their way to the peer
  air,
  \* BleService: image transfer state
  rx_meta, rx_buf, rx_received,
  \* history: outcome of the last job, jobs in flight, what the running
  \* job did so far
  outcome, jobs, pending_origin, run_origin, disc_mid, mtu_read,
  meta_sent, chunks,
  \* history: the job whose metadata record opened the receiver's
  \* accumulation, and whether the receiver got exactly its chunks since
  \* and whether its last step handed an image to its listeners
  rx_expect, rx_ok, rx_done

VARIABLES
  \* the container encoder (png_write_rgb565 / png_write_yuyv): its
  \* position, its arguments, its return value
  png_pc, png_fmt, png_width, png_height, png_ret,
  \* the output sink: what fs_write_all has written, one record per call
  png_file,
  \* struct zlib_writer: remaining, block_remaining, and what has been fed
  \* to adler and crc
  zw,
  \* the chunk png_write_chunk is writing and what it has fed to its crc
  chunk,
  \* the row loop: y, and data / len of zlib_write_data as an offset in
  \* row_buf
  png_y, png_off,
  \* row_buf: "none", "held" or "freed"
  row_buf,
  \* history: the error the sink returned to the encoder, 0 when none
  sink_err

pngVars == <<png_pc, png_fmt, png_width, png_height, png_ret, png_file, zw,
             chunk, png_y, png_off, row_buf, sink_err>>

devVars == <<current_conn, image_data_notify_enabled, image_meta_notify_enabled,
             capture_requested>>
jobVars == <<pc, data, size, width, height, ret, conn, chunk_size, offset>>
rxVars == <<rx_meta, rx_buf, rx_received, rx_expect, rx_ok, rx_done>>
histVars == <<outcome, jobs, run_origin, disc_mid, mtu_read, meta_sent, chunks>>

VARIABLES
  \* a checksum computation: the bytes, the number of them consumed, the
  \* running crc (finalized at the end) and the running adler
  ck_pc, ck_data, ck_i, ck_crc, ck_adler,
  \* a pixel of a row loop: its two source bytes, and the bytes stored for
  \* it by png_write_rgb565 and by bmp_write_rgb565
  cv_pc, cv_hi, cv_lo, cv_png, cv_bmp

calcVars == <<ck_pc, ck_data, ck_i, ck_crc, ck_adler, cv_pc, cv_hi, cv_lo, cv_png, cv_bmp>>

VARIABLES
  \* capture_png_to_sd: its position, the value it returns, and (history)
  \* the storage step that failed, "none" when none did, with the error
  \* that step returned
  cap_pc, cap_ret, cap_failed, cap_err

capVars == <<cap_pc, cap_ret, cap_failed, cap_err>>

VARIABLES
  \* a single call of one of the helper functions: its position, its
  \* arguments and what it returned or stored
  fn_pc, fn_args, fn_ret,
  \* a call of capture_work_handler followed through capture_for_ble: its
  \* position, the locals of capture_for_ble, for every buffer the number of
  \* times it was allocated and released, and what the call did to the
  \* video driver and to the link
  cfb_pc, cfb, heap, env

fnVars == <<fn_pc, fn_args, fn_ret>>
memVars == <<cfb_pc, cfb, heap, env>>

VARIABLES
  \* CameraProvider: _isCapturing, which disables the capture button of the
  \* home screen, and _connectionStatus
  isCapturing, connectionStatus

appVars == <<isCapturing, connectionStatus>>
extVars == <<fnVars, memVars, appVars>>

vars == <<current_conn, image_data_notify_enabled, image_meta_notify_enabled,
          capture_requested, work_pending, pc, data, size, width, height, ret,
          conn, chunk_size, offset, link, refs, air, rx_meta, rx_buf,
          rx_received, outcome, jobs, pending_origin, run_origin,
          disc_mid, mtu_read, meta_sent, chunks, rx_expect, rx_ok, rx_done,
          png_pc, png_fmt, png_width, png_height, png_ret, png_file, zw,
          chunk, png_y, png_off, row_buf, sink_err,
          ck_pc, ck_data, ck_i, ck_crc, ck_adler, cv_pc, cv_hi, cv_lo, cv_png, cv_bmp,
          cap_pc, cap_ret, cap_failed, cap_err,
          fn_pc, fn_args, fn_ret, cfb_pc, cfb, heap, env,
          isCapturing, connectionStatus>>

\* no checksum is being computed
CkIdle ==
  /\ ck_pc = "idle"
  /\ ck_data = <<>>
  /\ ck_i = 0
  /\ ck_crc = <<0, 0>>
  /\ ck_adler = <<0, 0>>

\* no pixel is being converted
CvIdle ==
  /\ cv_pc = "idle"
  /\ cv_hi = 0
  /\ cv_lo = 0
  /\ cv_png = <<0, 0, 0>>
  /\ cv_bmp = <<0, 0, 0>>

\* CONFIG_VIDEO_BUFFER_POOL_NUM_MAX, the size of buffers[]
MaxBuffers == 2

\* the locals of capture_for_ble at its entry
CfbEntry ==
  [ret |-> 0, streaming |-> FALSE, buffer_count |-> 0, i |-> 0,
   buffers |-> [k \in 1..MaxBuffers |-> "NULL"], dequeued |-> "NULL",
   data |-> "NULL"]

\* nothing allocated
HeapEmpty ==
  [img |-> [allocs |-> 0, frees |-> 0],
   buf |-> [k \in 1..MaxBuffers |-> [allocs |-> 0, frees |-> 0]]]

\* the stream is off, nothing is enqueued, nothing was notified, and
\* (history) video_dequeue has not come back without a frame
EnvIdle ==
  [stream_on |-> FALSE, stops |-> 0, enqueued |-> {}, notified |-> <<>>,
   noframe |-> FALSE]

\* the work handler has not been called
JobIdle ==
  /\ cfb_pc = "idle"
  /\ cfb = CfbEntry
  /\ heap = HeapEmpty
  /\ env = EnvIdle

\* CameraProvider as constructed: not capturing, not connected
AppIdle ==
  /\ isCapturing = FALSE
  /\ connectionStatus = "disconnected"

\* no helper function is being called
FnIdle ==
  /\ fn_pc = "idle"
  /\ fn_args = <<>>
  /\ fn_ret = <<>>

\* capture_png_to_sd has not been called
CapIdle ==
  /\ cap_pc = "idle"
  /\ cap_ret = 0
  /\ cap_failed = "none"
  /\ cap_err = 0

\* no encoder call is in progress
PngIdle ==
  /\ png_pc = "idle"
  /\ png_fmt = "none"
  /\ png_width = 0
  /\ png_height = 0
  /\ png_ret = 0
  /\ png_file = <<>>
  /\ zw = [remaining |-> 0, block_remaining |-> 0, adler |-> <<>>, crc |-> <<>>]
  /\ chunk = [type |-> "", len |-> 0, crc |-> <<>>, then |-> "idle"]
  /\ png_y = 0
  /\ png_off = 0
  /\ row_buf = "none"
  /\ sink_err = 0

\* positions of the work handler at which a job is in flight
ActivePcs == {"capture", "meta", "data", "stream"}

\* the BLE transfer state at boot
BleInit ==
  /\ current_conn = NULL
  /\ image_data_notify_enabled = FALSE
  /\ image_meta_notify_enabled = FALSE
  /\ capture_requested = FALSE
  /\ work_pending = FALSE
  /\ pc = "idle"
  /\ data = <<>>
  /\ size = 0
  /\ width = 0
  /\ height = 0
  /\ ret = 0
  /\ conn = NULL
  /\ chunk_size = 0
  /\ offset = 0
  /\ link = [c \in ConnIds |-> "free"]
  /\ refs = [c \in ConnIds |-> 0]
  /\ air = <<>>
  /\ rx_meta = <<>>
  /\ rx_buf = <<>>
  /\ rx_received = 0
  /\ outcome = "None"
  /\ jobs = 0
  /\ pending_origin = "none"
  /\ run_origin = "none"
  /\ disc_mid = FALSE
  /\ mtu_read = 0
  /\ meta_sent = 0
  /\ chunks = <<>>
  /\ rx_expect = <<>>
  /\ rx_ok = FALSE
  /\ rx_done = FALSE

Init == BleInit /\ PngIdle /\ CkIdle /\ CvIdle /\ CapIdle /\ FnIdle /\ JobIdle /\ AppIdle

(***************************************************************************)
(* The metadata record (send_image_metadata) and its parser                *)
(* (ImageMetadata.fromBytes).  Bytes are numbers 0..255; the parser's      *)
(* b0 | (b1 << 8) of two bytes is b0 + 256*b1.                             *)
(***************************************************************************)
\* (a metadata record with the size field first)
MetaBytes_SizeFirst(w, h, s) ==
  << s % 256, (s \div 256) % 256, (s \div 65536) % 256, (s \div 16777216) % 256,
     w % 256, (w \div 256) % 256,
     h % 256, (h \div 256) % 256,
     82, 71, 66, 53 >>

MetaBytes(w, h, s) ==
  << w % 256, (w \div 256) % 256,
     h % 256, (h \div 256) % 256,
     s % 256, (s \div 256) % 256, (s \div 65536) % 256, (s \div 16777216) % 256,
     82, 71, 66, 53 >>

fromBytes(b) ==
  [ width  |-> b[1] + 256 * b[2],
    height |-> b[3] + 256 * b[4],
    size   |-> b[5] + 256 * b[6] + 65536 * b[7] + 16777216 * b[8],
    format |-> SubSeq(b, 9, 12) ]

\* (a record with the size most significant byte first)
MetaBytes32_BigEndianSize(w, h, s) ==
  << w % 256, (w \div 256) % 256,
     h % 256, (h \div 256) % 256,
     (s[1] \div 256) % 256, s[1] % 256, (s[2] \div 256) % 256, s[2] % 256,
     82, 71, 66, 53 >>

\* meta[12] of send_image_metadata for a size of the full 32 bits, held as
\* <<high 16 bits, low 16 bits>>
MetaBytes32(w, h, s) ==
  << w % 256, (w \div 256) % 256,
     h % 256, (h \div 256) % 256,
     s[2] % 256, (s[2] \div 256) % 256, s[1] % 256, (s[1] \div 256) % 256,
     82, 71, 66, 53 >>

\* ImageMetadata.fromBytes with the size held the same way; the operands
\* of each | share no bit
fromBytes32(b) ==
  [ width  |-> b[1] + 256 * b[2],
    height |-> b[3] + 256 * b[4],
    size   |-> << b[7] + 256 * b[8], b[5] + 256 * b[6] >>,
    format |-> SubSeq(b, 9, 12) ]

(***************************************************************************)
(* send_image_data: the chunk size from the MTU (uint16_t arithmetic) and  *)
(* the length of the chunk at an offset.                                   *)
(***************************************************************************)
ChunkSize(mtu) ==
  LET cs == (mtu - ATT_OVERHEAD) % U16
  IN  IF cs > CHUNK_CAP THEN CHUNK_CAP ELSE cs

\* (full chunks one byte short)
ChunkLen_OneShort(sz, off, cs) ==
  IF sz - off > cs THEN cs - 1 ELSE (sz - off) % U16

\* (a last chunk of no bytes)
ChunkLen_EmptyLast(sz, off, cs) ==
  IF sz - off > cs THEN cs ELSE 0

ChunkLen(sz, off, cs) ==
  IF sz - off > cs THEN cs ELSE (sz - off) % U16

(***************************************************************************)
(* bt_gatt_notify(c, ...): the connections a notification can reach.  A    *)
(* NULL connection notifies every connected peer; a connection object      *)
(* that is not up takes nothing.                                           *)
(***************************************************************************)
NotifyTargets(c) ==
  IF c = NULL THEN {d \in ConnIds : link[d] = "up"}
  ELSE IF link[c] = "up" THEN {c} ELSE {}

\* bt_gatt_get_mtu(c) of a connection object: 0 when it is not up
MtuOf(c) == IF link[c] = "up" THEN MtuSet ELSE {0}

\* identity of the job's image: its first byte and its length
JobId == <<data[1], size>>
ImageOf(id) == Image(id[1], id[2])

(***************************************************************************)
(* BLE connection callbacks and GATT callbacks of the firmware.            *)
(***************************************************************************)
\* connected(conn, err): the stack hands a connection object nobody holds
connected(c, err) ==
  /\ link[c] = "free"
  /\ refs[c] = 0
  /\ IF err # 0
       THEN UNCHANGED <<current_conn, link, refs>>
       ELSE /\ current_conn' = c
            /\ refs' = [refs EXCEPT ![c] = refs[c] + 1]
            /\ link' = [link EXCEPT ![c] = "up"]
  /\ UNCHANGED <<image_data_notify_enabled, image_meta_notify_enabled,
                 capture_requested, work_pending, pending_origin, air>>
  /\ UNCHANGED <<jobVars, rxVars, histVars, pngVars, calcVars, capVars, extVars>>

\* the link of connection c goes down: the stack marks the object
\* disconnected before it calls the application, and what was still
\* buffered for the peer is lost
LinkDown(c) ==
  /\ link[c] = "up"
  /\ link' = [link EXCEPT ![c] = "closing"]
  /\ air' = SelectSeq(air, LAMBDA m : m.to # c)
  /\ disc_mid' = (disc_mid \/ (pc = "stream" /\ offset < size /\ conn = c))
  /\ UNCHANGED <<devVars, work_pending, pending_origin, refs>>
  /\ UNCHANGED <<jobVars, rxVars, pngVars, calcVars, capVars, extVars>>
  /\ UNCHANGED <<outcome, jobs, run_origin, mtu_read, meta_sent, chunks>>

\* (a disconnect handler that keeps the notification flags)
disconnected_KeepFlags(c) ==
  /\ link[c] = "closing"
  /\ link' = [link EXCEPT ![c] = "free"]
  /\ IF current_conn # NULL
       THEN /\ refs' = [refs EXCEPT ![current_conn] = refs[current_conn] - 1]
            /\ current_conn' = NULL
       ELSE UNCHANGED <<refs, current_conn>>
  /\ UNCHANGED <<image_data_notify_enabled, image_meta_notify_enabled>>
  /\ UNCHANGED <<capture_requested, work_pending, pending_origin, air>>
  /\ UNCHANGED <<jobVars, rxVars, histVars, pngVars, calcVars, capVars, extVars>>

\* (a disconnect handler that cancels the streaming job itself)
disconnected_CancelsJob(c) ==
  /\ link[c] = "closing"
  /\ link' = [link EXCEPT ![c] = "free"]
  /\ IF current_conn # NULL
       THEN /\ refs' = [refs EXCEPT ![current_conn] = refs[current_conn] - 1]
            /\ current_conn' = NULL
       ELSE UNCHANGED <<refs, current_conn>>
  /\ image_data_notify_enabled' = FALSE
  /\ image_meta_notify_enabled' = FALSE
  /\ offset' = IF pc = "stream" THEN size ELSE offset
  /\ UNCHANGED <<pc, data, size, width, height, ret, conn, chunk_size>>
  /\ UNCHANGED <<capture_requested, work_pending, pending_origin, air>>
  /\ UNCHANGED <<rxVars, histVars, pngVars, calcVars, capVars, extVars>>

\* disconnected(conn, reason)
disconnected(c) ==
  /\ link[c] = "closing"
  /\ link' = [link EXCEPT ![c] = "free"]
  /\ IF current_conn # NULL
       THEN /\ refs' = [refs EXCEPT ![current_conn] = refs[current_conn] - 1]
            /\ current_conn' = NULL
       ELSE UNCHANGED <<refs, current_conn>>
  /\ image_data_notify_enabled' = FALSE
  /\ image_meta_notify_enabled' = FALSE
  /\ UNCHANGED <<capture_requested, work_pending, pending_origin, air>>
  /\ UNCHANGED <<jobVars, rxVars, histVars, pngVars, calcVars, capVars, extVars>>

\* image_data_ccc_changed(attr, value), on a CCC write of a connected peer
image_data_ccc_changed(value) ==
  /\ \E c \in ConnIds : link[c] = "up"
  /\ image_data_notify_enabled' = (value = BT_GATT_CCC_NOTIFY)
  /\ UNCHANGED <<current_conn, image_meta_notify_enabled, capture_requested,
                 work_pending, pending_origin, link, refs, air>>
  /\ UNCHANGED <<jobVars, rxVars, histVars, pngVars, calcVars, capVars, extVars>>

\* image_meta_ccc_changed(attr, value)
image_meta_ccc_changed(value) ==
  /\ \E c \in ConnIds : link[c] = "up"
  /\ image_meta_notify_enabled' = (value = BT_GATT_CCC_NOTIFY)
  /\ UNCHANGED <<current_conn, image_data_notify_enabled, capture_requested,
                 work_pending, pending_origin, link, refs, air>>
  /\ UNCHANGED <<jobVars, rxVars, histVars, pngVars, calcVars, capVars, extVars>>

\* k_work_submit(&capture_work): queues the item unless it is queued
\* already; an item whose handler is running is queued again
k_work_submit == work_pending' = TRUE

\* BT_ATT_ERR_INVALID_ATTRIBUTE_LEN, and BT_GATT_ERR of it
BT_ATT_ERR_INVALID_ATTRIBUTE_LEN == 13
BT_GATT_ERR(x) == 0 - x

\* what capture_write returns
CaptureWriteRet(buf) ==
  IF Len(buf) < 1 THEN BT_GATT_ERR(BT_ATT_ERR_INVALID_ATTRIBUTE_LEN) ELSE Len(buf)

\* (a handler that takes any non-empty write for the command)
CaptureWriteBody_AnyByte(buf) ==
  /\ \E c \in ConnIds : link[c] = "up"
  /\ IF Len(buf) >= 1
       THEN /\ capture_requested' = TRUE
            /\ k_work_submit
            /\ pending_origin' =
                 IF pc \notin ActivePcs THEN "idle"
                 ELSE IF work_pending THEN pending_origin ELSE "busy"
       ELSE UNCHANGED <<capture_requested, work_pending, pending_origin>>
  /\ UNCHANGED <<current_conn, image_data_notify_enabled,
                 image_meta_notify_enabled, link, refs, air>>
  /\ UNCHANGED <<jobVars, rxVars, histVars, pngVars, calcVars, capVars, memVars>>

\* what capture_write does to the firmware's state
CaptureWriteBody(buf) ==
  /\ \E c \in ConnIds : link[c] = "up"
  /\ IF Len(buf) >= 1 /\ buf[1] = CMD_CAPTURE
       THEN /\ capture_requested' = TRUE
            /\ k_work_submit
            /\ pending_origin' =
                 IF pc \notin ActivePcs THEN "idle"
                 ELSE IF work_pending THEN pending_origin ELSE "busy"
       ELSE UNCHANGED <<capture_requested, work_pending, pending_origin>>
  /\ UNCHANGED <<current_conn, image_data_notify_enabled,
                 image_meta_notify_enabled, link, refs, air>>
  /\ UNCHANGED <<jobVars, rxVars, histVars, pngVars, calcVars, capVars, memVars>>

\* capture_write(conn, attr, buf, len, offset, flags) of a connected peer
capture_write(buf) ==
  /\ CaptureWriteBody(buf)
  /\ UNCHANGED <<fnVars, appVars>>

\* the same call with its arguments and its return value kept
GattWrite(buf) ==
  /\ fn_pc = "idle"
  /\ CaptureWriteBody(buf)
  /\ fn_pc' = "returned"
  /\ fn_args' = <<buf>>
  /\ fn_ret' = <<CaptureWriteRet(buf)>>
  /\ UNCHANGED appVars

\* the stack has answered the write with that value
GattWriteAnswered ==
  /\ fn_pc = "returned"
  /\ fn_pc' = "idle"
  /\ fn_args' = <<>>
  /\ fn_ret' = <<>>
  /\ UNCHANGED <<devVars, work_pending, pending_origin, link, refs, air, jobVars,
                 rxVars, histVars, pngVars, calcVars, capVars, memVars, appVars>>

(***************************************************************************)
(* The system workqueue thread and capture_work_handler.                   *)
(***************************************************************************)
\* (a workqueue that starts a handler while another one runs)
WorkerFree_Reentrant == pc # "fault"

\* the workqueue thread runs one handler at a time
WorkerFree == pc = "idle"

\* the workqueue thread takes capture_work off its queue and calls
\* capture_work_handler
WorkerTake ==
  /\ WorkerFree
  /\ work_pending
  /\ work_pending' = FALSE
  /\ pc' = "check"
  /\ run_origin' = pending_origin
  /\ pending_origin' = "none"
  /\ UNCHANGED <<devVars, link, refs, air>>
  /\ UNCHANGED <<data, size, width, height, ret, conn, chunk_size, offset>>
  /\ UNCHANGED <<outcome, jobs, disc_mid, mtu_read, meta_sent, chunks>>
  /\ UNCHANGED <<rxVars, pngVars, calcVars, capVars, extVars>>

\* the handler returns: its locals are gone, the job (if one was started)
\* is over
Return(o, started) ==
  /\ pc' = "idle"
  /\ outcome' = o
  /\ jobs' = IF started THEN jobs - 1 ELSE jobs
  /\ data' = <<>>
  /\ size' = 0
  /\ width' = 0
  /\ height' = 0
  /\ conn' = NULL
  /\ chunk_size' = 0
  /\ offset' = 0
  /\ run_origin' = "none"
  /\ disc_mid' = FALSE
  /\ mtu_read' = 0
  /\ meta_sent' = 0
  /\ chunks' = <<>>

\* everything a return leaves as it is
KeepJob ==
  UNCHANGED <<pc, outcome, jobs, data, size, width, height, conn, chunk_size,
              offset, run_origin, disc_mid, mtu_read, meta_sent, chunks>>

\* (a metadata failure that falls through to the image data)
MetaFailedExit_FallThrough ==
  /\ pc' = "data"
  /\ UNCHANGED <<outcome, jobs, data, size, width, height, conn, chunk_size,
                 offset, run_origin, disc_mid, mtu_read, meta_sent, chunks>>

\* (a metadata failure that is logged and sent again)
MetaFailedExit_Retry ==
  /\ outcome' = "MetaFailed"
  /\ UNCHANGED <<pc, jobs, data, size, width, height, conn, chunk_size,
                 offset, run_origin, disc_mid, mtu_read, meta_sent, chunks>>

\* capture_work_handler, lines 1273-1277: free the image and return
MetaFailedExit == Return("MetaFailed", TRUE)

\* (a failed chunk that is sent again)
ChunkFailedExit_Retry == KeepJob

\* send_image_data, lines 1232-1235, and capture_work_handler, lines
\* 1283-1287: return the error, free the image and return
ChunkFailedExit == Return("TransferAborted", TRUE)

\* the session check of capture_work_handler
SessionOk == current_conn # NULL /\ image_data_notify_enabled

\* capture_work_handler, lines 1256-1261
CheckSession ==
  /\ pc = "check"
  /\ IF ~SessionOk
       THEN /\ Return("NoSubscriber", FALSE)
            /\ ret' = 0
       ELSE /\ pc' = "capture"
            /\ outcome' = "None"
            /\ jobs' = jobs + 1
            /\ UNCHANGED <<data, size, width, height, ret, conn, chunk_size, offset>>
            /\ UNCHANGED <<run_origin, disc_mid, mtu_read, meta_sent, chunks>>
  /\ UNCHANGED <<devVars, work_pending, pending_origin, link, refs, air>>
  /\ UNCHANGED <<rxVars, pngVars, calcVars, capVars, extVars>>

\* capture_for_ble succeeds with frame f: the image is allocated and copied
CaptureOk(f) ==
  /\ pc = "capture"
  /\ data' = Image(f.seed, f.size)
  /\ size' = f.size
  /\ width' = f.width % U16
  /\ height' = f.height % U16
  /\ ret' = 0
  /\ pc' = "meta"
  /\ UNCHANGED <<conn, chunk_size, offset>>
  /\ UNCHANGED <<devVars, work_pending, pending_origin, link, refs, air>>
  /\ UNCHANGED <<rxVars, histVars, pngVars, calcVars, capVars, extVars>>

\* capture_for_ble fails (no camera, no frame, no memory): nothing allocated
CaptureFail ==
  /\ pc = "capture"
  /\ ret' = -1
  /\ Return("CaptureFailed", TRUE)
  /\ UNCHANGED <<devVars, work_pending, pending_origin, link, refs, air>>
  /\ UNCHANGED <<rxVars, pngVars, calcVars, capVars, extVars>>

\* bt_gatt_notify(c, attr, bytes, len) succeeds towards peer t
NotifyOk(c, t, msg) ==
  /\ t \in NotifyTargets(c)
  /\ Len(air) < MaxAir
  /\ air' = Append(air, [msg EXCEPT !.to = t])
  /\ ret' = 0

\* bt_gatt_notify fails: not connected, not subscribed, no buffer
NotifyFail ==
  /\ air' = air
  /\ ret' = -1

\* send_image_metadata(current_conn, width, height, size), lines 1272-1279
SendMeta ==
  /\ pc = "meta"
  /\ \/ /\ \E t \in ConnIds :
             NotifyOk(current_conn, t,
                      [ch |-> "meta", to |-> t,
                       bytes |-> MetaBytes(width, height, size),
                       job |-> JobId, off |-> 0])
        /\ pc' = "data"
        /\ meta_sent' = meta_sent + 1
        /\ UNCHANGED <<data, size, width, height, conn, chunk_size, offset>>
        /\ UNCHANGED <<outcome, jobs, run_origin, disc_mid, mtu_read, chunks>>
     \/ /\ NotifyFail
        /\ MetaFailedExit
  /\ UNCHANGED <<devVars, work_pending, pending_origin, link, refs>>
  /\ UNCHANGED <<rxVars, pngVars, calcVars, capVars, extVars>>

\* the call send_image_data(current_conn, data, size) and lines 1216-1226.
\* bt_gatt_get_mtu of a NULL connection dereferences it: the handler
\* faults, or goes on with whatever the read gave
CallSendData ==
  /\ pc = "data"
  /\ conn' = current_conn
  /\ \/ /\ current_conn = NULL
        /\ pc' = "fault"
        /\ UNCHANGED <<chunk_size, offset, mtu_read>>
     \/ \E mtu \in (IF current_conn = NULL THEN MtuSet \cup {0}
                                            ELSE MtuOf(current_conn)) :
          /\ chunk_size' = ChunkSize(mtu)
          /\ mtu_read' = mtu
          /\ offset' = 0
          /\ pc' = "stream"
  /\ UNCHANGED <<data, size, width, height, ret>>
  /\ UNCHANGED <<devVars, work_pending, pending_origin, link, refs, air>>
  /\ UNCHANGED <<outcome, jobs, run_origin, disc_mid, meta_sent, chunks>>
  /\ UNCHANGED <<rxVars, pngVars, calcVars, capVars, extVars>>

\* one iteration of the loop of send_image_data, lines 1228-1241; a failed
\* notify returns through capture_work_handler, lines 1283-1287
SendChunk ==
  /\ pc = "stream"
  /\ offset < size
  /\ LET len == ChunkLen(size, offset, chunk_size)
     IN  \/ /\ \E t \in ConnIds :
                 NotifyOk(conn, t,
                          [ch |-> "data", to |-> t,
                           bytes |-> SubSeq(data, offset + 1, offset + len),
                           job |-> JobId, off |-> offset])
            /\ offset' = offset + len
            /\ chunks' = Append(chunks, <<offset, len>>)
            /\ UNCHANGED <<pc, data, size, width, height, conn, chunk_size>>
            /\ UNCHANGED <<outcome, jobs, run_origin, disc_mid, mtu_read, meta_sent>>
         \/ /\ NotifyFail
            /\ ChunkFailedExit
  /\ UNCHANGED <<devVars, work_pending, pending_origin, link, refs>>
  /\ UNCHANGED <<rxVars, pngVars, calcVars, capVars, extVars>>

\* the loop of send_image_data ends, lines 1243-1244 and 1287
StreamDone ==
  /\ pc = "stream"
  /\ ~(offset < size)
  /\ ret' = 0
  /\ Return("Done", TRUE)
  /\ UNCHANGED <<devVars, work_pending, pending_origin, link, refs, air>>
  /\ UNCHANGED <<rxVars, pngVars, calcVars, capVars, extVars>>

Worker ==
  \/ WorkerTake
  \/ CheckSession
  \/ \E f \in Frames : CaptureOk(f)
  \/ CaptureFail
  \/ SendMeta
  \/ CallSendData
  \/ SendChunk
  \/ StreamDone

(***************************************************************************)
(* BleService: the handlers of the two notification streams.               *)
(***************************************************************************)
\* _onMetadataReceived(value)
onMetadataReceived(m) ==
  IF Len(m.bytes) < META_LEN
    THEN /\ rx_done' = FALSE
         /\ UNCHANGED <<rx_meta, rx_buf, rx_received, rx_expect, rx_ok>>
    ELSE /\ rx_meta' = <<fromBytes(m.bytes)>>
         /\ rx_buf' = <<>>
         /\ rx_received' = 0
         /\ rx_expect' = m.job
         /\ rx_ok' = TRUE
         /\ rx_done' = FALSE

\* the image _onImageDataReceived hands to its listeners
imageData(buf, sz) == SubSeq(buf, 1, Min(sz, Len(buf)))

\* the receiver has got the metadata record of job rx_expect and then
\* exactly its chunks, in order, m included
InOrder(m) == rx_ok /\ m.job = rx_expect /\ m.off = rx_received

\* _onImageDataReceived(value)
onImageDataReceived(m) ==
  IF rx_meta = <<>>
    THEN /\ rx_done' = FALSE
         /\ UNCHANGED <<rx_meta, rx_buf, rx_received, rx_expect, rx_ok>>
    ELSE LET buf == rx_buf \o m.bytes
             n   == rx_received + Len(m.bytes)
         IN  IF n >= rx_meta[1].size
               THEN /\ rx_done' = InOrder(m)
                    /\ rx_meta' = <<>>
                    /\ rx_buf' = <<>>
                    /\ rx_received' = 0
                    /\ rx_ok' = FALSE
                    /\ rx_expect' = <<>>
               ELSE /\ rx_buf' = buf
                    /\ rx_received' = n
                    /\ rx_ok' = InOrder(m)
                    /\ rx_done' = FALSE
                    /\ UNCHANGED <<rx_meta, rx_expect>>

\* the peer receives the oldest notification in flight
ReceiveBody ==
  /\ air # <<>>
  /\ air' = Tail(air)
  /\ IF Head(air).ch = "meta"
       THEN onMetadataReceived(Head(air))
       ELSE onImageDataReceived(Head(air))
  /\ UNCHANGED <<devVars, work_pending, pending_origin, link, refs>>
  /\ UNCHANGED <<jobVars, histVars, pngVars, calcVars, capVars, fnVars, memVars>>

\* BleService alone, nobody listening to its streams
Receive ==
  /\ ReceiveBody
  /\ UNCHANGED appVars

(***************************************************************************)
(* The system.                                                             *)
(***************************************************************************)
Peer ==
  \/ \E c \in ConnIds, err \in ConnErrs : connected(c, err)
  \/ \E c \in ConnIds : LinkDown(c)
  \/ \E c \in ConnIds : disconnected(c)
  \/ \E v \in CccValues : image_data_ccc_changed(v)
  \/ \E v \in CccValues : image_meta_ccc_changed(v)
  \/ \E buf \in CaptureWrites : capture_write(buf)

\* the peer takes the oldest notification in flight; what it does with it
\* is not the firmware's business
Drain ==
  /\ air # <<>>
  /\ air' = Tail(air)
  /\ UNCHANGED <<devVars, work_pending, pending_origin, link, refs>>
  /\ UNCHANGED <<jobVars, rxVars, histVars, pngVars, calcVars, capVars, extVars>>

\* the firmware and an arbitrary peer
Next == Peer \/ Worker \/ Drain

Spec == Init /\ [][Next]_vars

\* the workqueue thread keeps running the handler it has started and the
\* items queued to it
FairSpec == Spec /\ WF_vars(Worker)

(***************************************************************************)
(* send_image_data alone: a job that has sent its metadata record streams  *)
(* one frame, of any of the sizes of StreamSizes, to the peer of the       *)
(* session, whose link may go down meanwhile.                              *)
(***************************************************************************)
InitStream ==
  /\ \E f \in StreamFrames :
       /\ data = Image(f.seed, f.size)
       /\ size = f.size
       /\ width = f.width % U16
       /\ height = f.height % U16
  /\ current_conn = 1
  /\ link = [c \in ConnIds |-> IF c = 1 THEN "up" ELSE "free"]
  /\ refs = [c \in ConnIds |-> IF c = 1 THEN 1 ELSE 0]
  /\ image_data_notify_enabled = TRUE
  /\ image_meta_notify_enabled = TRUE
  /\ capture_requested = TRUE
  /\ work_pending = FALSE
  /\ pc = "data"
  /\ ret = 0
  /\ conn = NULL
  /\ chunk_size = 0
  /\ offset = 0
  /\ air = <<>>
  /\ rx_meta = <<>>
  /\ rx_buf = <<>>
  /\ rx_received = 0
  /\ outcome = "None"
  /\ jobs = 1
  /\ pending_origin = "none"
  /\ run_origin = "idle"
  /\ disc_mid = FALSE
  /\ mtu_read = 0
  /\ meta_sent = 1
  /\ chunks = <<>>
  /\ rx_expect = <<>>
  /\ rx_ok = FALSE
  /\ rx_done = FALSE
  /\ PngIdle
  /\ CkIdle
  /\ CvIdle
  /\ CapIdle
  /\ FnIdle
  /\ JobIdle
  /\ AppIdle

NextStream ==
  \/ CallSendData
  \/ SendChunk
  \/ StreamDone
  \/ Drain
  \/ \E c \in ConnIds : LinkDown(c)
  \/ \E c \in ConnIds : disconnected(c)

SpecStream == InitStream /\ [][NextStream]_vars

(***************************************************************************)
(* The firmware and the companion application in one session: the          *)
(* application has connected; it subscribes to both characteristics,       *)
(* writes the capture command, and its two notification handlers take      *)
(* what arrives, until the link goes down.                                 *)
(***************************************************************************)
InitTransfer ==
  /\ current_conn = 1
  /\ link = [c \in ConnIds |-> IF c = 1 THEN "up" ELSE "free"]
  /\ refs = [c \in ConnIds |-> IF c = 1 THEN 1 ELSE 0]
  /\ image_data_notify_enabled = FALSE
  /\ image_meta_notify_enabled = FALSE
  /\ capture_requested = FALSE
  /\ work_pending = FALSE
  /\ pc = "idle"
  /\ data = <<>>
  /\ size = 0
  /\ width = 0
  /\ height = 0
  /\ ret = 0
  /\ conn = NULL
  /\ chunk_size = 0
  /\ offset = 0
  /\ air = <<>>
  /\ rx_meta = <<>>
  /\ rx_buf = <<>>
  /\ rx_received = 0
  /\ outcome = "None"
  /\ jobs = 0
  /\ pending_origin = "none"
  /\ run_origin = "none"
  /\ disc_mid = FALSE
  /\ mtu_read = 0
  /\ meta_sent = 0
  /\ chunks = <<>>
  /\ rx_expect = <<>>
  /\ rx_ok = FALSE
  /\ rx_done = FALSE
  /\ PngIdle
  /\ CkIdle
  /\ CvIdle
  /\ CapIdle
  /\ FnIdle
  /\ JobIdle
  /\ AppIdle

App ==
  \/ image_data_ccc_changed(BT_GATT_CCC_NOTIFY)
  \/ image_meta_ccc_changed(BT_GATT_CCC_NOTIFY)
  \/ capture_write(<<CMD_CAPTURE>>)
  \/ \E c \in ConnIds : LinkDown(c)
  \/ \E c \in ConnIds : disconnected(c)

NextTransfer == App \/ Worker \/ Receive

SpecTransfer == InitTransfer /\ [][NextTransfer]_vars

(***************************************************************************)
(* The container encoder: png_write_rgb565 and png_write_yuyv with          *)
(* png_write_chunk, zlib_start_block and zlib_write_data.  One action per   *)
(* call of fs_write_all; the sink takes the bytes or returns an error.      *)
(***************************************************************************)
\* frames whose filtered data is 4 bytes, 14 bytes in two rows, one byte
\* under a block, one
\* block, one byte over, two blocks, and one row of two blocks and a byte
PngDims == { <<1, 1>>, <<2, 2>>, <<1560, 14>>, <<1456, 15>>, <<5461, 4>>,
             <<1456, 30>>, <<43690, 1>> }

PngFormats == {"RGB565", "YUYV"}

\* errors of the sink: -EIO, -ENOSPC
SinkErrs == {-5, -28}

\* (the four bytes, least significant first)
png_write_u32_le(value) ==
  << value % 256, (value \div 256) % 256, (value \div 65536) % 256,
     (value \div 16777216) % 256 >>

\* png_write_u32_be: the four bytes, most significant first
png_write_u32_be(value) ==
  << (value \div 16777216) % 256, (value \div 65536) % 256,
     (value \div 256) % 256, value % 256 >>

\* the 4 characters of a chunk type
TypeBytes(type) ==
  CASE type = "IHDR" -> <<73, 72, 68, 82>>
    [] type = "IDAT" -> <<73, 68, 65, 84>>
    [] type = "IEND" -> <<73, 69, 78, 68>>

\* ihdr[13] of png_write_rgb565 / png_write_yuyv
IhdrBytes(w, h) == png_write_u32_be(w) \o png_write_u32_be(h) \o <<8, 2, 0, 0, 0>>

\* (a row without its last byte)
RowSize_Short(w) == w * 3

\* row_size, data_len, block_count, zlib_len of the encoders
RowSize(w) == (w * 3) + 1
DataLen(w, h) == RowSize(w) * h

\* (a block count that is one too many at the multiples of the block size)
BlockCount_PlusOne(w, h) == (DataLen(w, h) \div PNG_BLOCK_SIZE) + 1

BlockCount(w, h) == (DataLen(w, h) + PNG_BLOCK_SIZE - 1) \div PNG_BLOCK_SIZE
ZlibLen(w, h) == 2 + DataLen(w, h) + (BlockCount(w, h) * 5) + 4

\* block_hdr[5] of zlib_start_block for w->remaining = rem
BlockLen(rem) == IF rem > PNG_BLOCK_SIZE THEN PNG_BLOCK_SIZE ELSE rem

\* (a final flag set only on a block shorter than the largest)
BlockHdr_FinalIfShort(rem) ==
  LET block_len == BlockLen(rem)
      header == IF rem < PNG_BLOCK_SIZE THEN 1 ELSE 0
      nlen == (U16 - 1) - (block_len % U16)
  IN  << header, block_len % 256, (block_len \div 256) % 256,
         nlen % 256, (nlen \div 256) % 256 >>

\* (a complement taken on the low byte only)
BlockHdr_LowComplement(rem) ==
  LET block_len == BlockLen(rem)
      header == IF rem = block_len THEN 1 ELSE 0
      nlen == 255 - (block_len % 256)
  IN  << header, block_len % 256, (block_len \div 256) % 256,
         nlen % 256, (nlen \div 256) % 256 >>

BlockHdr(rem) ==
  LET block_len == BlockLen(rem)
      header == IF rem = block_len THEN 1 ELSE 0
      nlen == (U16 - 1) - (block_len % U16)
  IN  << header, block_len % 256, (block_len \div 256) % 256,
         nlen % 256, (nlen \div 256) % 256 >>

(***************************************************************************)
(* The colour conversions of the row loops.  The frame is a buffer whose     *)
(* byte i of row y is SrcByte(y, i).                                        *)
(***************************************************************************)
RECURSIVE BitOr(_, _)
\* a | b of two unsigned values
BitOr(a, b) ==
  IF a = 0 THEN b
  ELSE IF b = 0 THEN a
  ELSE (IF a % 2 = 1 \/ b % 2 = 1 THEN 1 ELSE 0) + 2 * BitOr(a \div 2, b \div 2)

SrcByte(y, i) == ((i * 31) + (y * 17) + 3) % 256

\* the conversion with the channels shifted into the high bits only
Rgb565ToRgb_NoReplicate(hi, lo) ==
  LET pixel == BitOr(hi * 256, lo)
      r == (pixel \div 2048) % 32
      g == (pixel \div 32) % 64
      b == pixel % 32
  IN  << (r * 8) % 256, (g * 4) % 256, (b * 8) % 256 >>

\* the three bytes png_write_rgb565 stores for the pixel whose bytes are
\* hi, lo
Rgb565ToRgb(hi, lo) ==
  LET pixel == BitOr(hi * 256, lo)
      r == (pixel \div 2048) % 32
      g == (pixel \div 32) % 64
      b == pixel % 32
  IN  << BitOr(r * 8, r \div 4) % 256,
         BitOr(g * 4, g \div 16) % 256,
         BitOr(b * 8, b \div 4) % 256 >>

\* the three bytes bmp_write_rgb565 stores for the pixel whose bytes are
\* hi, lo: the same expansion, stored blue first
Rgb565ToBgr(hi, lo) ==
  LET pixel == BitOr(hi * 256, lo)
      r == (pixel \div 2048) % 32
      g == (pixel \div 32) % 64
      b == pixel % 32
  IN  << BitOr(b * 8, b \div 4) % 256,
         BitOr(g * 4, g \div 16) % 256,
         BitOr(r * 8, r \div 4) % 256 >>

clamp_u8(value) == IF value < 0 THEN 0 ELSE IF value > 255 THEN 255 ELSE value

\* (the conversion stored without clamping, cut to a byte by the store)
YuyvToRgb_Unclamped(yy, u, v) ==
  LET c == yy - 16
      d == u - 128
      e == v - 128
  IN  << (((298 * c) + (409 * e) + 128) \div 256) % 256,
         (((298 * c) - (100 * d) - (208 * e) + 128) \div 256) % 256,
         (((298 * c) + (516 * d) + 128) \div 256) % 256 >>

\* the three bytes png_write_yuyv stores for a pixel of luma yy in a group
\* with chroma u, v
YuyvToRgb(yy, u, v) ==
  LET c == yy - 16
      d == u - 128
      e == v - 128
  IN  << clamp_u8(((298 * c) + (409 * e) + 128) \div 256),
         clamp_u8(((298 * c) - (100 * d) - (208 * e) + 128) \div 256),
         clamp_u8(((298 * c) + (516 * d) + 128) \div 256) >>

\* the triple the row loop of the encoder for fmt stores for pixel x of
\* row y
PixelRgb(fmt, y, x) ==
  IF fmt = "RGB565"
    THEN Rgb565ToRgb(SrcByte(y, 2 * x), SrcByte(y, (2 * x) + 1))
    ELSE LET x0 == x - (x % 2)
         IN  YuyvToRgb(SrcByte(y, (x0 * 2) + (IF x % 2 = 0 THEN 0 ELSE 2)),
                       SrcByte(y, (x0 * 2) + 1), SrcByte(y, (x0 * 2) + 3))

\* row_buf[k] when row y has been converted: the filter byte, then the
\* triples
RowByte(fmt, y, k) ==
  IF k = 0 THEN 0 ELSE PixelRgb(fmt, y, (k - 1) \div 3)[((k - 1) % 3) + 1]

\* everything but the encoder
bleVars == <<devVars, work_pending, pending_origin, link, refs, air, jobVars,
             rxVars, histVars, calcVars, capVars, extVars>>

\* one call of fs_write_all that wrote its n bytes: the bytes themselves
\* for the short writes, the slice [from, from + n) of row y for row data,
\* the records fed to the checksum for a checksum
Rec(tag, name, bytes, n, y, from, cover) ==
  [tag |-> tag, name |-> name, bytes |-> bytes, n |-> n, y |-> y,
   from |-> from, cover |-> cover]

\* fs_write_all returns 0: the record is in the file
FsWriteOk(rec) ==
  /\ png_file' = Append(png_file, rec)
  /\ sink_err' = 0

\* (a failed write that is tried again)
FsWriteFailed_Retry(e) ==
  /\ png_file' = png_file
  /\ sink_err' = e
  /\ UNCHANGED <<png_ret, png_pc>>

\* fs_write_all returns the sink's error e and the encoder returns it
FsWriteFailed(e) ==
  /\ png_file' = png_file
  /\ sink_err' = e
  /\ png_ret' = e
  /\ png_pc' = "done"

\* the encoder is called on a frame of the format, width and height given
PngCall(fmt, w, h) ==
  /\ png_pc = "idle"
  /\ png_pc' = "sig"
  /\ png_fmt' = fmt
  /\ png_width' = w
  /\ png_height' = h
  /\ UNCHANGED <<png_ret, png_file, zw, chunk, png_y, png_off, row_buf, sink_err>>
  /\ UNCHANGED bleVars

\* fs_write_all(file, signature, 8), then the call of
\* png_write_chunk(file, "IHDR", ihdr, 13)
WriteSignature ==
  /\ png_pc = "sig"
  /\ \/ /\ FsWriteOk(Rec("sig", "", <<137, 80, 78, 71, 13, 10, 26, 10>>, 8, 0, 0, <<>>))
        /\ png_pc' = "chunk_len"
        /\ chunk' = [type |-> "IHDR", len |-> 13, crc |-> <<>>, then |-> "idat_len"]
        /\ UNCHANGED png_ret
     \/ /\ \E e \in SinkErrs : FsWriteFailed(e)
        /\ UNCHANGED chunk
  /\ UNCHANGED <<png_fmt, png_width, png_height, zw, png_y, png_off, row_buf>>
  /\ UNCHANGED bleVars

\* png_write_chunk: png_write_u32_be(file, len)
ChunkLength ==
  /\ png_pc = "chunk_len"
  /\ \/ /\ FsWriteOk(Rec("len", chunk.type, png_write_u32_be(chunk.len), 4, 0, 0, <<>>))
        /\ png_pc' = "chunk_type"
        /\ UNCHANGED png_ret
     \/ \E e \in SinkErrs : FsWriteFailed(e)
  /\ UNCHANGED <<png_fmt, png_width, png_height, zw, chunk, png_y, png_off, row_buf>>
  /\ UNCHANGED bleVars

\* png_write_chunk: the type, and the crc over it
ChunkType ==
  /\ png_pc = "chunk_type"
  /\ \/ /\ FsWriteOk(Rec("type", chunk.type, TypeBytes(chunk.type), 4, 0, 0, <<>>))
        /\ chunk' = [chunk EXCEPT !.crc = Append(@, Len(png_file) + 1)]
        /\ png_pc' = IF chunk.len > 0 THEN "chunk_data" ELSE "chunk_crc"
        /\ UNCHANGED png_ret
     \/ /\ \E e \in SinkErrs : FsWriteFailed(e)
        /\ UNCHANGED chunk
  /\ UNCHANGED <<png_fmt, png_width, png_height, zw, png_y, png_off, row_buf>>
  /\ UNCHANGED bleVars

\* png_write_chunk: the data (the IHDR fields), and the crc over it
ChunkData ==
  /\ png_pc = "chunk_data"
  /\ \/ /\ FsWriteOk(Rec("data", chunk.type, IhdrBytes(png_width, png_height),
                        chunk.len, 0, 0, <<>>))
        /\ chunk' = [chunk EXCEPT !.crc = Append(@, Len(png_file) + 1)]
        /\ png_pc' = "chunk_crc"
        /\ UNCHANGED png_ret
     \/ /\ \E e \in SinkErrs : FsWriteFailed(e)
        /\ UNCHANGED chunk
  /\ UNCHANGED <<png_fmt, png_width, png_height, zw, png_y, png_off, row_buf>>
  /\ UNCHANGED bleVars

\* png_write_chunk: the finalized crc; after IEND the encoder returns
ChunkCrc ==
  /\ png_pc = "chunk_crc"
  /\ \/ /\ FsWriteOk(Rec("crc", chunk.type, <<>>, 4, 0, 0, chunk.crc))
        /\ png_pc' = chunk.then
        /\ png_ret' = 0
     \/ \E e \in SinkErrs : FsWriteFailed(e)
  /\ UNCHANGED <<png_fmt, png_width, png_height, zw, chunk, png_y, png_off, row_buf>>
  /\ UNCHANGED bleVars

\* png_write_u32_be(file, zlib_len)
IdatLength ==
  /\ png_pc = "idat_len"
  /\ \/ /\ FsWriteOk(Rec("len", "IDAT",
                        png_write_u32_be(ZlibLen(png_width, png_height)), 4, 0, 0, <<>>))
        /\ png_pc' = "idat_type"
        /\ UNCHANGED png_ret
     \/ \E e \in SinkErrs : FsWriteFailed(e)
  /\ UNCHANGED <<png_fmt, png_width, png_height, zw, chunk, png_y, png_off, row_buf>>
  /\ UNCHANGED bleVars

\* (a crc that starts at the length field)
IdatType_CrcFromLength ==
  /\ png_pc = "idat_type"
  /\ \/ /\ FsWriteOk(Rec("type", "IDAT", TypeBytes("IDAT"), 4, 0, 0, <<>>))
        /\ zw' = [remaining |-> DataLen(png_width, png_height),
                  block_remaining |-> 0,
                  adler |-> <<>>,
                  crc |-> <<Len(png_file), Len(png_file) + 1>>]
        /\ png_pc' = "zhdr"
        /\ UNCHANGED png_ret
     \/ /\ \E e \in SinkErrs : FsWriteFailed(e)
        /\ UNCHANGED zw
  /\ UNCHANGED <<png_fmt, png_width, png_height, chunk, png_y, png_off, row_buf>>
  /\ UNCHANGED bleVars

\* fs_write_all(file, "IDAT", 4), the crc over it and the zlib_writer
IdatType ==
  /\ png_pc = "idat_type"
  /\ \/ /\ FsWriteOk(Rec("type", "IDAT", TypeBytes("IDAT"), 4, 0, 0, <<>>))
        /\ zw' = [remaining |-> DataLen(png_width, png_height),
                  block_remaining |-> 0,
                  adler |-> <<>>,
                  crc |-> <<Len(png_file) + 1>>]
        /\ png_pc' = "zhdr"
        /\ UNCHANGED png_ret
     \/ /\ \E e \in SinkErrs : FsWriteFailed(e)
        /\ UNCHANGED zw
  /\ UNCHANGED <<png_fmt, png_width, png_height, chunk, png_y, png_off, row_buf>>
  /\ UNCHANGED bleVars

\* fs_write_all(file, zhdr, 2)
ZlibHeader ==
  /\ png_pc = "zhdr"
  /\ \/ /\ FsWriteOk(Rec("zhdr", "IDAT", <<120, 1>>, 2, 0, 0, <<>>))
        /\ zw' = [zw EXCEPT !.crc = Append(@, Len(png_file) + 1)]
        /\ png_pc' = "alloc"
        /\ UNCHANGED png_ret
     \/ /\ \E e \in SinkErrs : FsWriteFailed(e)
        /\ UNCHANGED zw
  /\ UNCHANGED <<png_fmt, png_width, png_height, chunk, png_y, png_off, row_buf>>
  /\ UNCHANGED bleVars

\* row_buf = k_malloc(1 + width * 3)
AllocRow ==
  /\ png_pc = "alloc"
  /\ \/ /\ row_buf' = "held"
        /\ png_pc' = "row"
        /\ png_y' = 0
        /\ UNCHANGED png_ret
     \/ /\ png_ret' = -12
        /\ png_pc' = "done"
        /\ UNCHANGED <<row_buf, png_y>>
  /\ UNCHANGED <<png_fmt, png_width, png_height, png_file, zw, chunk, png_off, sink_err>>
  /\ UNCHANGED bleVars

\* the head of the row loop: the next row is converted into row_buf and
\* handed to zlib_write_data, or the loop ends and row_buf is freed
RowLoop ==
  /\ png_pc = "row"
  /\ IF png_y < png_height
       THEN /\ png_off' = 0
            /\ png_pc' = "zwd"
            /\ UNCHANGED row_buf
       ELSE /\ row_buf' = "freed"
            /\ png_pc' = "adler"
            /\ UNCHANGED png_off
  /\ UNCHANGED <<png_fmt, png_width, png_height, png_ret, png_file, zw, chunk,
                 png_y, sink_err>>
  /\ UNCHANGED bleVars

\* len of zlib_write_data: what of the row is still to write
ZwdLen == RowSize(png_width) - png_off

\* the encoder's exit on an error of zlib_write_data: k_free(row_buf)
ZwdFailed(e) ==
  /\ FsWriteFailed(e)
  /\ row_buf' = "freed"

\* (a block header that enters the Adler32 as well)
StartBlock_IntoAdler ==
  /\ png_pc = "zwd"
  /\ ZwdLen > 0
  /\ zw.block_remaining = 0
  /\ IF zw.remaining = 0
       THEN /\ png_pc' = "zwdata"
            /\ UNCHANGED <<png_file, zw, png_ret, row_buf, sink_err>>
       ELSE \/ /\ FsWriteOk(Rec("blk", "IDAT", BlockHdr(zw.remaining), 5, 0, 0, <<>>))
               /\ zw' = [zw EXCEPT !.crc = Append(@, Len(png_file) + 1),
                                   !.adler = Append(@, Len(png_file) + 1),
                                   !.block_remaining = BlockLen(zw.remaining)]
               /\ png_pc' = "zwdata"
               /\ UNCHANGED <<png_ret, row_buf>>
            \/ /\ \E e \in SinkErrs : ZwdFailed(e)
               /\ UNCHANGED zw
  /\ UNCHANGED <<png_fmt, png_width, png_height, chunk, png_y, png_off>>
  /\ UNCHANGED bleVars

\* zlib_write_data finds the block exhausted and calls zlib_start_block
StartBlock ==
  /\ png_pc = "zwd"
  /\ ZwdLen > 0
  /\ zw.block_remaining = 0
  /\ IF zw.remaining = 0
       THEN /\ png_pc' = "zwdata"
            /\ UNCHANGED <<png_file, zw, png_ret, row_buf, sink_err>>
       ELSE \/ /\ FsWriteOk(Rec("blk", "IDAT", BlockHdr(zw.remaining), 5, 0, 0, <<>>))
               /\ zw' = [zw EXCEPT !.crc = Append(@, Len(png_file) + 1),
                                   !.block_remaining = BlockLen(zw.remaining)]
               /\ png_pc' = "zwdata"
               /\ UNCHANGED <<png_ret, row_buf>>
            \/ /\ \E e \in SinkErrs : ZwdFailed(e)
               /\ UNCHANGED zw
  /\ UNCHANGED <<png_fmt, png_width, png_height, chunk, png_y, png_off>>
  /\ UNCHANGED bleVars

\* zlib_write_data writes what of the row fits in the block
WriteData ==
  /\ \/ png_pc = "zwdata"
     \/ png_pc = "zwd" /\ ZwdLen > 0 /\ zw.block_remaining > 0
  /\ LET n == IF ZwdLen > zw.block_remaining THEN zw.block_remaining ELSE ZwdLen
     IN  \/ /\ IF n > 0
                 THEN FsWriteOk(Rec("row", "IDAT", <<>>, n, png_y, png_off, <<>>))
                 ELSE UNCHANGED <<png_file, sink_err>>
            /\ zw' = [zw EXCEPT
                        !.crc = IF n > 0 THEN Append(@, Len(png_file) + 1) ELSE @,
                        !.adler = IF n > 0 THEN Append(@, Len(png_file) + 1) ELSE @,
                        !.block_remaining = @ - n,
                        !.remaining = @ - n]
            /\ png_off' = png_off + n
            /\ png_pc' = "zwd"
            /\ UNCHANGED <<png_ret, row_buf>>
         \/ /\ n > 0
            /\ \E e \in SinkErrs : ZwdFailed(e)
            /\ UNCHANGED <<zw, png_off>>
  /\ UNCHANGED <<png_fmt, png_width, png_height, chunk, png_y>>
  /\ UNCHANGED bleVars

\* zlib_write_data returns 0: the row is written, y++
RowWritten ==
  /\ png_pc = "zwd"
  /\ ZwdLen = 0
  /\ png_y' = png_y + 1
  /\ png_pc' = "row"
  /\ UNCHANGED <<png_fmt, png_width, png_height, png_ret, png_file, zw, chunk,
                 png_off, row_buf, sink_err>>
  /\ UNCHANGED bleVars

\* fs_write_all(file, adler_be, 4)
WriteAdler ==
  /\ png_pc = "adler"
  /\ \/ /\ FsWriteOk(Rec("adler", "IDAT", <<>>, 4, 0, 0, zw.adler))
        /\ zw' = [zw EXCEPT !.crc = Append(@, Len(png_file) + 1)]
        /\ png_pc' = "idat_crc"
        /\ UNCHANGED png_ret
     \/ /\ \E e \in SinkErrs : FsWriteFailed(e)
        /\ UNCHANGED zw
  /\ UNCHANGED <<png_fmt, png_width, png_height, chunk, png_y, png_off, row_buf>>
  /\ UNCHANGED bleVars

\* png_write_u32_be(file, crc32_finalize(zw.crc)), then the call of
\* png_write_chunk(file, "IEND", NULL, 0)
IdatCrc ==
  /\ png_pc = "idat_crc"
  /\ \/ /\ FsWriteOk(Rec("crc", "IDAT", <<>>, 4, 0, 0, zw.crc))
        /\ chunk' = [type |-> "IEND", len |-> 0, crc |-> <<>>, then |-> "done"]
        /\ png_pc' = "chunk_len"
        /\ UNCHANGED png_ret
     \/ /\ \E e \in SinkErrs : FsWriteFailed(e)
        /\ UNCHANGED chunk
  /\ UNCHANGED <<png_fmt, png_width, png_height, zw, png_y, png_off, row_buf>>
  /\ UNCHANGED bleVars

Encoder ==
  \/ WriteSignature
  \/ ChunkLength
  \/ ChunkType
  \/ ChunkData
  \/ ChunkCrc
  \/ IdatLength
  \/ IdatType
  \/ ZlibHeader
  \/ AllocRow
  \/ RowLoop
  \/ StartBlock
  \/ WriteData
  \/ RowWritten
  \/ WriteAdler
  \/ IdatCrc

NextPng ==
  \/ \E fmt \in PngFormats, d \in PngDims : PngCall(fmt, d[1], d[2])
  \/ Encoder

SpecPng == Init /\ [][NextPng]_vars

(***************************************************************************)
(* Properties.                                                             *)
(***************************************************************************)

\* C1: in every reachable state at most one capture/transfer job is in
\* flight (between the start of the capture and the release of the image).
C1_AtMostOneJob ==
  /\ jobs <= 1
  /\ (jobs = 1) = (pc \in ActivePcs \cup {"fault"})

\* a job is streaming while a further trigger is queued
C1_Witness == jobs = 1 /\ pc = "stream" /\ work_pending /\ chunks # <<>>

\* C2 (as claimed): a trigger that arrives while a job is in flight starts
\* no job, neither at once nor after the job in flight has ended: no job
\* runs on a handler call that only such triggers queued.
C2_BusyTriggerStartsNothing == ~(pc \in ActivePcs /\ run_origin = "busy")

\* C3: once a job has ended, whatever its outcome, the worker is idle (or
\* entering a fresh handler call); a trigger queued then makes the
\* workqueue call the handler again; and the job that call starts is a
\* fresh one, with nothing left of the job before.
C3_FreshJobAfterEnd ==
  /\ [](outcome # "None" => pc \in {"idle", "check"})
  /\ ((outcome # "None" /\ pc = "idle" /\ work_pending) ~> (pc = "check"))
  /\ [][(pc = "check" /\ pc' = "capture")
         => (jobs' = 1 /\ data' = <<>> /\ size' = 0 /\ offset' = 0
             /\ meta_sent' = 0 /\ chunks' = <<>> /\ ~disc_mid')]_vars

\* the handler is entered again, with a session, after a failed job
C3_Witness ==
  /\ outcome \in {"CaptureFailed", "MetaFailed", "TransferAborted"}
  /\ pc = "check" /\ SessionOk

C6_ChunkingArithmetic ==
  (pc = "stream" /\ chunk_size >= 1) =>
    LET n == Len(chunks)
        total == (size + chunk_size - 1) \div chunk_size
    IN  /\ \A i \in 1..n :
             /\ chunks[i][1] = (i - 1) * chunk_size
             /\ chunks[i][2] = IF i < total THEN chunk_size
                                ELSE size - (total - 1) * chunk_size
             /\ chunks[i][2] >= 1
        /\ offset = IF n < total THEN n * chunk_size ELSE size
        /\ n <= total
        /\ (~(offset < size) => n = total /\ offset = size)

\* the frame of MaxStreamSize (10000) bytes went out with 244-byte chunks:
\* 41 chunks, the last one 240 bytes long
C6_Witness ==
  /\ pc = "stream" /\ size = MaxStreamSize /\ chunk_size = CHUNK_CAP
  /\ offset = size
  /\ Len(chunks) = (MaxStreamSize + CHUNK_CAP - 1) \div CHUNK_CAP
  /\ chunks[Len(chunks)][2] = MaxStreamSize - (Len(chunks) - 1) * CHUNK_CAP
  /\ chunks[Len(chunks)][2] < CHUNK_CAP

\* C7 (as claimed): the chunk size of a streaming job is min(MTU - 3, 244),
\* MTU being what the link reported when streaming started, and no chunk
\* sent is longer.
C7_ChunkSizeIsMin ==
  pc = "stream" =>
    /\ chunk_size = Min(mtu_read - ATT_OVERHEAD, CHUNK_CAP)
    /\ \A i \in 1..Len(chunks) : chunks[i][2] <= chunk_size

\* C8: a failed chunk send ends the job as TransferAborted at once: the
\* handler returns, nothing more is sent and the image is released.
C8_AbortOnChunkFailure ==
  [][(pc = "stream" /\ ret' < 0)
       => /\ pc' = "idle"
          /\ outcome' = "TransferAborted"
          /\ air' = air
          /\ data' = <<>>]_vars

\* a job was aborted by a failed chunk send
C8_Witness == outcome = "TransferAborted" /\ pc = "idle" /\ ret < 0

\* C9 (as claimed): without a session or without the metadata subscription
\* the job ends NoSubscriber at the session check.
C9_NoSubscriberWithoutMetaSubscription ==
  [][(pc = "check" /\ pc' # "check"
        /\ (current_conn = NULL \/ ~image_meta_notify_enabled))
       => (pc' = "idle" /\ outcome' = "NoSubscriber")]_vars

C11_DisconnectResetsSession ==
  [][/\ (\E c \in ConnIds : link[c] = "closing" /\ link'[c] = "free")
          => (current_conn' = NULL /\ ~image_data_notify_enabled'
              /\ ~image_meta_notify_enabled')
     /\ (image_data_notify_enabled' # image_data_notify_enabled
          \/ image_meta_notify_enabled' # image_meta_notify_enabled)
          => \/ \E c \in ConnIds : link[c] = "closing" /\ link'[c] = "free"
             \/ UNCHANGED <<link, refs, current_conn, work_pending, air, jobVars>>
    ]_vars

\* the disconnect handler has run under a job that was started with a
\* session and with image-data notifications enabled
C11_Witness ==
  /\ pc \in {"meta", "data", "stream"}
  /\ current_conn = NULL
  /\ ~image_data_notify_enabled /\ ~image_meta_notify_enabled
  /\ \A c \in ConnIds : link[c] = "free"

\* C12: a step that changes a field of the session (stored connection,
\* notification flags) or the state of a link leaves the job state alone:
\* handler position, image buffer, image size, send offset, chunk size.
C12_HandlersLeaveJobAlone ==
  [][(current_conn' # current_conn
        \/ image_data_notify_enabled' # image_data_notify_enabled
        \/ image_meta_notify_enabled' # image_meta_notify_enabled
        \/ link' # link \/ refs' # refs)
       => UNCHANGED <<pc, data, size, width, height, conn, chunk_size, offset>>
    ]_vars

\* a peer has disconnected and another connected and subscribed while a
\* job was streaming, and the job is where it was
C12_Witness ==
  /\ pc = "stream" /\ offset > 0 /\ offset < size
  /\ disc_mid
  /\ current_conn # NULL /\ image_meta_notify_enabled

(***************************************************************************)
(* What a reader finds in the file the encoder wrote.                      *)
(***************************************************************************)
\* the records with a tag and a chunk name
RecsOf(tag, name) ==
  {i \in 1..Len(png_file) : png_file[i].tag = tag /\ png_file[i].name = name}

\* the number a 4-byte big-endian field holds
BeValue(b) == (((((b[1] * 256) + b[2]) * 256) + b[3]) * 256) + b[4]

RECURSIVE BytesIn(_, _)
\* bytes written by the records i..j
BytesIn(i, j) == IF i > j THEN 0 ELSE png_file[i].n + BytesIn(i + 1, j)

\* the stored-block headers and the row slices, in file order
Blocks == SelectSeq(png_file, LAMBDA r : r.tag = "blk")
Slices == SelectSeq(png_file, LAMBDA r : r.tag = "row")

\* the length a stored-block header declares
HdrLen(r) == r.bytes[2] + (256 * r.bytes[3])

RECURSIVE PayloadBefore(_)
\* bytes of payload in the slices before slice i
PayloadBefore(i) == IF i <= 1 THEN 0 ELSE Slices[i - 1].n + PayloadBefore(i - 1)

\* the encoder has returned 0
PngOk == png_pc = "done" /\ png_ret = 0

\* C13: in a file the encoder has completed, the length field of the data
\* chunk is 2 + data_len + 5 * ceil(data_len / 65535) + 4 and is the number
\* of bytes between the chunk's type tag and its crc.
C13_DeclaredLengthIsWritten ==
  PngOk =>
    LET t == CHOOSE i \in RecsOf("type", "IDAT") : TRUE
        c == CHOOSE i \in RecsOf("crc", "IDAT") : TRUE
        data_len == DataLen(png_width, png_height)
        declared == BeValue(png_file[t - 1].bytes)
    IN  /\ png_file[t - 1].tag = "len"
        /\ declared = BytesIn(t + 1, c - 1)
        /\ declared = 2 + data_len
                        + (5 * ((data_len + PNG_BLOCK_SIZE - 1) \div PNG_BLOCK_SIZE)) + 4
        /\ Len(Blocks) = (data_len + PNG_BLOCK_SIZE - 1) \div PNG_BLOCK_SIZE

\* a frame whose filtered data is exactly two blocks has been encoded
C13_Witness ==
  PngOk /\ DataLen(png_width, png_height) = 2 * PNG_BLOCK_SIZE /\ Len(Blocks) = 2

\* C14: a stored-block header is written only when the block before is
\* exhausted and data remains, with length min(remaining, 65535) and the
\* final flag exactly when that is all that remains; row bytes are written
\* only into an open block, never past its end; and in a completed file
\* the block lengths add up to the data and the last block alone is final.
C14_BlockFraming ==
  /\ [][Len(png_file') = Len(png_file) + 1 =>
          LET r == png_file'[Len(png_file')]
          IN  /\ r.tag = "blk" =>
                   /\ zw.block_remaining = 0 /\ zw.remaining > 0
                   /\ HdrLen(r) = (IF zw.remaining > PNG_BLOCK_SIZE
                                     THEN PNG_BLOCK_SIZE ELSE zw.remaining)
                   /\ r.bytes[1] = (IF zw.remaining <= PNG_BLOCK_SIZE THEN 1 ELSE 0)
                   /\ zw'.block_remaining = HdrLen(r)
              /\ r.tag = "row" =>
                   /\ zw.block_remaining >= r.n /\ r.n >= 1
                   /\ zw'.block_remaining = zw.block_remaining - r.n
                   /\ zw'.remaining = zw.remaining - r.n
                   /\ (zw.block_remaining > r.n => r.from + r.n = RowSize(png_width))
       ]_vars
  /\ [](PngOk =>
          /\ zw.remaining = 0 /\ zw.block_remaining = 0
          /\ Blocks # <<>>
          /\ \A i \in 1..Len(Blocks) : Blocks[i].bytes[1] = (IF i = Len(Blocks) THEN 1 ELSE 0)
          /\ \A i \in 1..Len(Blocks) :
               HdrLen(Blocks[i]) = (IF i < Len(Blocks) THEN PNG_BLOCK_SIZE
                                    ELSE DataLen(png_width, png_height)
                                           - ((Len(Blocks) - 1) * PNG_BLOCK_SIZE)))

\* a row of two blocks and one byte has been encoded in three blocks
C14_Witness ==
  PngOk /\ Len(Blocks) = 3 /\ png_height = 1 /\ HdrLen(Blocks[3]) = 1

\* C15: in a completed file the payloads of the stored blocks, one after
\* the other, are the rows in source order: byte q of the payload is the
\* filter byte 0 when q is the first byte of a row and else the byte of
\* the converted triple at that place of the row.
C15_FramingRoundTrip ==
  PngOk =>
    LET rs == (png_width * 3) + 1
    IN  /\ PayloadBefore(Len(Slices) + 1) = rs * png_height
        /\ \A i \in 1..Len(Slices) :
             LET p == PayloadBefore(i)
             IN  \A j \in 0..(Slices[i].n - 1) :
                   RowByte(png_fmt, Slices[i].y, Slices[i].from + j)
                     = (IF (p + j) % rs = 0 THEN 0
                        ELSE PixelRgb(png_fmt, (p + j) \div rs,
                                      (((p + j) % rs) - 1) \div 3)[((((p + j) % rs) - 1) % 3) + 1])

\* a frame of four rows has been encoded, one of them split across the
\* boundary of two blocks
C15_Witness ==
  /\ PngOk /\ png_height = 4 /\ Len(Blocks) = 2
  /\ \E i \in 1..Len(Slices) : Slices[i].from > 0

\* C16: once the sink has returned an error the encoder has returned, with
\* that error as its value, and the step in which the sink fails and every
\* step after it writes nothing.
C16_AbortOnSinkError ==
  /\ [](sink_err # 0 => (png_pc = "done" /\ png_ret = sink_err))
  /\ [][(sink_err # 0 \/ sink_err' # 0) => png_file' = png_file]_vars

\* the sink has failed in the middle of the row data
C16_Witness ==
  /\ png_pc = "done" /\ sink_err = -28 /\ png_ret = -28
  /\ Len(Slices) > 1 /\ zw.remaining > 0 /\ row_buf = "freed"

\* C17: a completed file is the signature, the IHDR chunk, one IDAT chunk
\* and the IEND chunk, in this order and nothing else; each chunk is a
\* 4-byte big-endian length, its 4-byte type, as many payload bytes as the
\* length says and a 4-byte crc.
C17_ContainerLayout ==
  PngOk =>
    LET f == png_file
        n == Len(png_file)
        Framed(l, c, type) ==
          /\ f[l].tag = "len" /\ f[l].n = 4 /\ Len(f[l].bytes) = 4
          /\ f[l + 1].tag = "type" /\ f[l + 1].n = 4
          /\ f[l + 1].bytes = TypeBytes(type)
          /\ f[c].tag = "crc" /\ f[c].n = 4 /\ f[c].name = type
          /\ BeValue(f[l].bytes) = BytesIn(l + 2, c - 1)
    IN  /\ n >= 15
        /\ f[1].tag = "sig" /\ f[1].n = 8
        /\ f[1].bytes = <<137, 80, 78, 71, 13, 10, 26, 10>>
        /\ Framed(2, 5, "IHDR")
        /\ f[4].tag = "data" /\ f[4].n = 13
        /\ Framed(6, n - 3, "IDAT")
        /\ f[8].tag = "zhdr"
        /\ \A i \in 9..(n - 5) : f[i].tag \in {"blk", "row"}
        /\ f[n - 4].tag = "adler"
        /\ Framed(n - 2, n, "IEND")
        /\ BeValue(f[n - 2].bytes) = 0
        /\ BytesIn(1, n) = 8 + (12 + 13) + (12 + ZlibLen(png_width, png_height)) + 12

\* the smallest frame has been encoded from YUYV: 15 writes
C17_Witness ==
  PngOk /\ png_fmt = "YUYV" /\ png_width = 1 /\ png_height = 1 /\ Len(png_file) = 15
\* ---------------------------------------------------------------------
\* The checksums, computed on 32-bit words held as <<high 16 bits, low 16 bits>>
\* ---------------------------------------------------------------------

RECURSIVE BitXor(_, _)
\* a ^ b on non-negative integers
BitXor(a, b) ==
  IF a = 0 THEN b
  ELSE IF b = 0 THEN a
  ELSE (((a % 2) + (b % 2)) % 2) + (2 * BitXor(a \div 2, b \div 2))

\* x ^ y on 32-bit words
Xor32(x, y) == <<BitXor(x[1], y[1]), BitXor(x[2], y[2])>>

\* c >> 1 on a 32-bit word
Shr1(c) == <<c[1] \div 2, (c[2] \div 2) + ((c[1] % 2) * 32768)>>

\* crc >> 8 on a 32-bit word
Shr8(c) == <<c[1] \div 256, (c[2] \div 256) + ((c[1] % 256) * 256)>>

\* 0xEDB88320, the reflected CRC-32 polynomial
CRC_POLY == <<60856, 33568>>

RECURSIVE CrcTableStep(_, _)
\* j more rounds of c = (c & 1) ? (0xEDB88320 ^ (c >> 1)) : (c >> 1)
CrcTableStep(c, j) ==
  IF j = 0 THEN c
  ELSE CrcTableStep(IF c[2] % 2 = 1 THEN Xor32(CRC_POLY, Shr1(c)) ELSE Shr1(c), j - 1)

\* table[i]
CrcTable(i) == CrcTableStep(<<0, i>>, 8)

\* crc32_init with a zero start value
crc32_init_Zero == <<0, 0>>

crc32_init == <<65535, 65535>>

RECURSIVE crc32_update(_, _)
\* crc = table[(crc ^ data[i]) & 0xFF] ^ (crc >> 8) over the bytes of data
crc32_update(crc, bytes) ==
  IF bytes = <<>> THEN crc
  ELSE crc32_update(Xor32(CrcTable(BitXor(crc[2] % 256, Head(bytes))), Shr8(crc)),
                    Tail(bytes))

crc32_finalize(crc) == Xor32(crc, <<65535, 65535>>)

\* 65521, the Adler-32 modulus
ADLER_MOD == 65521

RECURSIVE adler32_update(_, _)
\* a = (a + data[i]) % mod; b = (b + a) % mod over the bytes; (b << 16) | a
adler32_update(adler, bytes) ==
  IF bytes = <<>> THEN adler
  ELSE LET a == (adler[2] + Head(bytes)) % ADLER_MOD
           b == (adler[1] + a) % ADLER_MOD
       IN  adler32_update(<<b, a>>, Tail(bytes))

\* the ASCII string 123456789
Check9 == <<49, 50, 51, 52, 53, 54, 55, 56, 57>>

\* the inputs of the checksum calls that are checked: the empty input, every
\* single byte, and the ASCII string
CkInputs == {<<>>} \cup { <<b>> : b \in 0..255 } \cup {Check9}

\* everything but the running checksums
ckFrame == <<ck_data, cv_pc, cv_hi, cv_lo, cv_png, cv_bmp, devVars, work_pending,
             pending_origin, link, refs, air, jobVars, rxVars, histVars, pngVars,
             capVars, extVars>>

\* crc = crc32_init() as in png_write_chunk, zw.adler = 1 as in the encoders
CkStart ==
  /\ ck_pc = "call"
  /\ ck_crc' = crc32_init
  /\ ck_adler' = <<0, 1>>
  /\ ck_i' = 0
  /\ ck_pc' = "update"
  /\ UNCHANGED ckFrame

\* crc32_update and adler32_update on the next byte, as zlib_write_data
\* calls them on each piece of data
CkUpdate ==
  /\ ck_pc = "update"
  /\ ck_i < Len(ck_data)
  /\ ck_crc' = crc32_update(ck_crc, <<ck_data[ck_i + 1]>>)
  /\ ck_adler' = adler32_update(ck_adler, <<ck_data[ck_i + 1]>>)
  /\ ck_i' = ck_i + 1
  /\ UNCHANGED ck_pc
  /\ UNCHANGED ckFrame

\* crc32_finalize(crc) once every byte is in
CkFinalize ==
  /\ ck_pc = "update"
  /\ ck_i = Len(ck_data)
  /\ ck_crc' = crc32_finalize(ck_crc)
  /\ ck_pc' = "done"
  /\ UNCHANGED <<ck_adler, ck_i>>
  /\ UNCHANGED ckFrame

InitChecksum ==
  /\ BleInit
  /\ PngIdle
  /\ CvIdle
  /\ CapIdle
  /\ FnIdle
  /\ JobIdle
  /\ AppIdle
  /\ ck_pc = "call"
  /\ ck_data \in CkInputs
  /\ ck_i = 0
  /\ ck_crc = <<0, 0>>
  /\ ck_adler = <<0, 0>>

NextChecksum == CkStart \/ CkUpdate \/ CkFinalize

SpecChecksum == InitChecksum /\ [][NextChecksum]_vars

\* C18: crc32 (initial value all ones, table update, final inversion) and
\* adler32 (a starting at 1, b at 0, modulus 65521) give the standard
\* reference values: 0x00000000 and 0x00000001 for the empty input;
\* 0xD202EF8D for the byte 0x00, 0xE8B7BE43 for the byte 'a', 0xFF000000 for
\* the byte 0xFF, and an Adler-32 of a = b = 1 + byte for every single byte;
\* 0xCBF43926 and 0x091E01DE for the ASCII string 123456789.
C18_ChecksumReferenceValues ==
  ck_pc = "done" =>
    /\ ck_data = <<>> => ck_crc = <<0, 0>> /\ ck_adler = <<0, 1>>
    /\ Len(ck_data) = 1 => ck_adler = <<1 + ck_data[1], 1 + ck_data[1]>>
    /\ ck_data = <<0>> => ck_crc = <<53762, 61325>>
    /\ ck_data = <<97>> => ck_crc = <<59575, 48707>>
    /\ ck_data = <<255>> => ck_crc = <<65280, 0>>
    /\ ck_data = Check9 => ck_crc = <<52212, 14630>> /\ ck_adler = <<2334, 478>>

\* both checksums of the ASCII string 123456789 have been computed
C18_Witness == ck_pc = "done" /\ ck_data = Check9 /\ ck_crc # <<0, 0>>

\* ---------------------------------------------------------------------
\* The RGB565 conversion, applied to every 16-bit pixel
\* ---------------------------------------------------------------------

\* the values a source byte of the frame buffer can have
Bytes == 0..255

\* one pixel of the row loop of png_write_rgb565 and of bmp_write_rgb565
ConvertPixel ==
  /\ cv_pc = "call"
  /\ cv_png' = Rgb565ToRgb(cv_hi, cv_lo)
  /\ cv_bmp' = Rgb565ToBgr(cv_hi, cv_lo)
  /\ cv_pc' = "done"
  /\ UNCHANGED <<cv_hi, cv_lo, ck_pc, ck_data, ck_i, ck_crc, ck_adler>>
  /\ UNCHANGED <<devVars, work_pending, pending_origin, link, refs, air, jobVars,
                 rxVars, histVars, pngVars, capVars, extVars>>

InitPixel ==
  /\ BleInit
  /\ PngIdle
  /\ CkIdle
  /\ CapIdle
  /\ FnIdle
  /\ JobIdle
  /\ AppIdle
  /\ cv_pc = "call"
  /\ cv_hi \in Bytes
  /\ cv_lo \in Bytes
  /\ cv_png = <<0, 0, 0>>
  /\ cv_bmp = <<0, 0, 0>>

NextPixel == ConvertPixel

SpecPixel == InitPixel /\ [][NextPixel]_vars

\* C19: for every 16-bit input, read high byte first, the conversion gives
\* for each 5-bit channel v the byte (v<<3)|(v>>2), that is 8v + v div 4, and
\* for the 6-bit channel the byte (v<<2)|(v>>4), that is 4v + v div 16, in
\* the PNG encoder and (stored blue first) in the BMP encoder; 0x0000 gives
\* (0,0,0), 0xFFFF gives (255,255,255), and 0xF800, where only the red field
\* is set, at its maximum, gives R=255, G=0, B=0.
C19_Rgb565Expansion ==
  cv_pc = "done" =>
    LET p == (cv_hi * 256) + cv_lo
        r5 == p \div 2048
        g6 == (p \div 32) % 64
        b5 == p % 32
        rgb == << (8 * r5) + (r5 \div 4), (4 * g6) + (g6 \div 16), (8 * b5) + (b5 \div 4) >>
    IN  /\ cv_png = rgb
        /\ cv_bmp = << rgb[3], rgb[2], rgb[1] >>
        /\ \A k \in 1..3 : cv_png[k] \in 0..255
        /\ p = 0 => cv_png = <<0, 0, 0>>
        /\ p = 65535 => cv_png = <<255, 255, 255>>
        /\ p = 63488 => cv_png = <<255, 0, 0>>

\* the pixel 0xF800 has been converted to pure red
C19_Witness == cv_pc = "done" /\ cv_hi = 248 /\ cv_lo = 0 /\ cv_png = <<255, 0, 0>>

\* ---------------------------------------------------------------------
\* capture_png_to_sd: frame, mount, open, encode, close
\* ---------------------------------------------------------------------

\* errors of the camera path: -ENODEV, -EIO
CamErrs == {-19, -5}

\* errors of mount_sdcard (disk_access_ioctl, fs_mount): -ENODEV, -EIO
MountErrs == {-19, -5}

\* errors of fs_open: -ENOENT, -ENOSPC
OpenErrs == {-2, -28}

\* everything capture_png_to_sd leaves alone outside the encoder call
capFrame == <<devVars, work_pending, pending_origin, link, refs, air, jobVars,
              rxVars, histVars, pngVars, calcVars, extVars>>

\* the camera path fails before a frame is there: the error is returned
CaptureFrameFailed(e) ==
  /\ cap_pc = "idle"
  /\ cap_ret' = e
  /\ cap_pc' = "done"
  /\ UNCHANGED <<cap_failed, cap_err>>
  /\ UNCHANGED capFrame

\* video_dequeue delivered a frame
CaptureFrameOk ==
  /\ cap_pc = "idle"
  /\ cap_pc' = "frame"
  /\ UNCHANGED <<cap_ret, cap_failed, cap_err>>
  /\ UNCHANGED capFrame

\* mount_sdcard fails and the error is returned
MountFailed_Propagate(e) ==
  /\ cap_pc = "frame"
  /\ cap_failed' = "mount"
  /\ cap_err' = e
  /\ cap_ret' = e
  /\ cap_pc' = "done"
  /\ UNCHANGED capFrame

\* mount_sdcard fails: ret = 0; goto cleanup
MountFailed(e) ==
  /\ cap_pc = "frame"
  /\ cap_failed' = "mount"
  /\ cap_err' = e
  /\ cap_ret' = 0
  /\ cap_pc' = "done"
  /\ UNCHANGED capFrame

MountOk ==
  /\ cap_pc = "frame"
  /\ cap_pc' = "mounted"
  /\ UNCHANGED <<cap_ret, cap_failed, cap_err>>
  /\ UNCHANGED capFrame

\* fs_open fails: goto cleanup with ret as fs_open returned it
FsOpenFailed(e) ==
  /\ cap_pc = "mounted"
  /\ cap_failed' = "open"
  /\ cap_err' = e
  /\ cap_ret' = e
  /\ cap_pc' = "done"
  /\ UNCHANGED capFrame

FsOpenOk ==
  /\ cap_pc = "mounted"
  /\ cap_pc' = "open"
  /\ UNCHANGED <<cap_ret, cap_failed, cap_err>>
  /\ UNCHANGED capFrame

\* the encoder is called on the open file
EncodeCall(fmt, w, h) ==
  /\ cap_pc = "open"
  /\ PngCall(fmt, w, h)

\* fs_close, then ret of the encoder decides: an error is returned as it is
FsClose ==
  /\ cap_pc = "open"
  /\ png_pc = "done"
  /\ cap_ret' = png_ret
  /\ cap_failed' = IF sink_err # 0 THEN "write" ELSE "none"
  /\ cap_err' = sink_err
  /\ cap_pc' = "done"
  /\ UNCHANGED capFrame

capture_png_to_sd ==
  \/ \E e \in CamErrs : CaptureFrameFailed(e)
  \/ CaptureFrameOk
  \/ \E e \in MountErrs : MountFailed(e)
  \/ MountOk
  \/ \E e \in OpenErrs : FsOpenFailed(e)
  \/ FsOpenOk
  \/ \E fmt \in PngFormats, d \in PngDims : EncodeCall(fmt, d[1], d[2])
  \/ FsClose

NextCapture == capture_png_to_sd \/ Encoder

SpecCapture == Init /\ [][NextCapture]_vars

\* C20 as stated: whichever storage step failed (mounting the medium,
\* opening the file, writing the container), the capture reports success.
C20_StorageFailureNonFatal ==
  (cap_pc = "done" /\ cap_failed \in {"mount", "open", "write"}) => cap_ret = 0

\* C20: when the storage medium cannot be mounted the capture still reports
\* success (0); when the file cannot be opened or a write of the container
\* fails, the capture returns that step's error, which is not 0.
C20_OnlyMountFailureNonFatal ==
  cap_pc = "done" =>
    /\ cap_failed = "mount" => cap_ret = 0 /\ cap_err # 0
    /\ cap_failed \in {"open", "write"} => cap_ret = cap_err /\ cap_ret # 0
    /\ cap_failed = "none" /\ png_pc = "done" => cap_ret = png_ret

\* a capture whose frame was taken ended with the medium not mounted
C20_Witness == cap_pc = "done" /\ cap_failed = "mount" /\ cap_err = -19 /\ cap_ret = 0

\* ---------------------------------------------------------------------
\* zlib_start_block, called for every number of bytes still to write
\* ---------------------------------------------------------------------

\* the largest w->remaining a call is made with: one more than two full
\* blocks, so that a block of every length from 1 to 65535 is started,
\* final and not final
MaxRemaining == 131071

\* everything a call of a helper function leaves alone
fnFrame == <<devVars, work_pending, pending_origin, link, refs, air, jobVars,
             rxVars, histVars, pngVars, calcVars, capVars, memVars, appVars>>

\* zlib_start_block with w->remaining = fn_args[1] > 0: the header it
\* writes
zlib_start_block ==
  /\ fn_pc = "zlib_start_block"
  /\ fn_ret' = BlockHdr(fn_args[1])
  /\ fn_pc' = "done"
  /\ UNCHANGED fn_args
  /\ UNCHANGED fnFrame

InitBlock ==
  /\ BleInit /\ PngIdle /\ CkIdle /\ CvIdle /\ CapIdle /\ JobIdle /\ AppIdle
  /\ fn_pc = "zlib_start_block"
  /\ fn_args \in { <<rem>> : rem \in 1..MaxRemaining }
  /\ fn_ret = <<>>

NextBlock == zlib_start_block

SpecBlock == InitBlock /\ [][NextBlock]_vars

RECURSIVE BitAt(_, _)
\* bit i of the non-negative integer v
BitAt(v, i) == IF i = 0 THEN v % 2 ELSE BitAt(v \div 2, i - 1)

\* C21: every stored-block header written carries, after the final flag, the
\* block length as 16 bits low byte first and then a 16-bit field, low byte
\* first, each bit of which is the opposite of the same bit of the
\* length; the length is min(remaining, 65535), so every length from 1 to
\* 65535 occurs.
C21_BlockHeaderComplement ==
  fn_pc = "done" =>
    LET rem  == fn_args[1]
        hdr  == fn_ret
        len  == hdr[2] + (256 * hdr[3])
        nlen == hdr[4] + (256 * hdr[5])
    IN  /\ Len(hdr) = 5
        /\ \A k \in 1..5 : hdr[k] \in 0..255
        /\ len = (IF rem > PNG_BLOCK_SIZE THEN PNG_BLOCK_SIZE ELSE rem)
        /\ len \in 1..PNG_BLOCK_SIZE
        /\ \A i \in 0..15 : BitAt(nlen, i) = 1 - BitAt(len, i)
        /\ len + nlen = U16 - 1

\* the header of a block of 258 bytes: 02 01 then FD FE
C21_Witness ==
  fn_pc = "done" /\ fn_args = <<258>> /\ fn_ret = <<1, 2, 1, 253, 254>>

\* the index of the type record of the chunk whose record c belongs to
TypeRecBefore(c) ==
  CHOOSE t \in 1..c :
    /\ png_file[t].tag = "type"
    /\ \A u \in (t + 1)..c : png_file[u].tag # "type"

\* C22: the crc written for a chunk is computed over the chunk's type
\* record followed by every record written after it up to the crc, once
\* each and in write order, never over the length field before the type;
\* for IDAT these records are the 2-byte compression header, each 5-byte
\* block header, each row slice and the 4-byte Adler32 trailer, for IHDR the
\* 13 data bytes and for IEND nothing.
C22_CrcCoversTypeAndData ==
  \A c \in 1..Len(png_file) :
    png_file[c].tag = "crc" =>
      LET t == TypeRecBefore(c)
          cov == png_file[c].cover
      IN  /\ t >= 2
          /\ png_file[t - 1].tag = "len"
          /\ png_file[t].name = png_file[c].name
          /\ cov = [i \in 1..(c - t) |-> t + i - 1]
          /\ \A i \in 2..Len(cov) :
               png_file[cov[i]].tag \in
                 (CASE png_file[c].name = "IDAT" -> {"zhdr", "blk", "row", "adler"}
                    [] png_file[c].name = "IHDR" -> {"data"}
                    [] OTHER -> {})
          /\ png_file[c].name = "IDAT" =>
               /\ png_file[cov[2]].tag = "zhdr" /\ png_file[cov[2]].n = 2
               /\ png_file[cov[Len(cov)]].tag = "adler" /\ png_file[cov[Len(cov)]].n = 4
               /\ BytesIn(t + 1, c - 1) = BeValue(png_file[t - 1].bytes)
               /\ \A i \in 2..Len(cov) :
                    png_file[cov[i]].tag = "blk" => png_file[cov[i]].n = 5

\* a complete file whose IDAT crc covers three block headers
C22_Witness ==
  /\ PngOk
  /\ \E c \in RecsOf("crc", "IDAT") :
       Cardinality({i \in 1..Len(png_file[c].cover) :
                      png_file[png_file[c].cover[i]].tag = "blk"}) = 3
  /\ RecsOf("crc", "IHDR") # {} /\ RecsOf("crc", "IEND") # {}

\* the bytes a row-data record stands for
SliceBytes(r) == [j \in 1..r.n |-> RowByte(png_fmt, r.y, r.from + j - 1)]

RECURSIVE AdlerValue(_, _)
\* zw.adler after the writes listed in cover: 1 at first (.adler = 1U), then
\* adler32_update with the bytes of each
AdlerValue(cover, i) ==
  IF i = 0 THEN <<0, 1>>
  ELSE adler32_update(AdlerValue(cover, i - 1), SliceBytes(png_file[cover[i]]))

\* byte i (from 0) of the uncompressed payload: the rows in order
PayloadByte(i) ==
  RowByte(png_fmt, i \div ((png_width * 3) + 1), i % ((png_width * 3) + 1))

RECURSIVE SumUpTo(_)
\* the sum of the first n payload bytes
SumUpTo(n) == IF n = 0 THEN 0 ELSE SumUpTo(n - 1) + PayloadByte(n - 1)

RECURSIVE RunningSum(_)
\* the sum of 1 + SumUpTo(k) for k in 1..n
RunningSum(n) == IF n = 0 THEN 0 ELSE RunningSum(n - 1) + 1 + SumUpTo(n)

\* the payloads short enough for the Adler32 value to be computed
SmallPayload == 16

\* C23: the Adler32 trailer is the Adler32, started at 1, of the row bytes
\* only and in order: the writes that entered it are exactly the row
\* slices written, in write order, which tile the rows from the first byte
\* of row 0 to the last byte of the last row, wherever the block
\* boundaries fall; no block header and no compression header is among
\* them.  For a short payload of n bytes d the value is
\* a = (1 + sum d) mod 65521, b = (n + sum (n - i) d_i) mod 65521, and
\* feeding the bytes in two pieces split anywhere gives the same value.
C23_AdlerOverPayloadOnly ==
  \A c \in 1..Len(png_file) :
    png_file[c].tag = "adler" =>
      LET cov == png_file[c].cover
          rs  == (png_width * 3) + 1
          n   == rs * png_height
          rows == {i \in 1..(c - 1) : png_file[i].tag = "row"}
      IN  /\ \A i \in 1..Len(cov) : cov[i] \in rows
          /\ \A i \in rows : \E k \in 1..Len(cov) : cov[k] = i
          /\ \A i \in 1..(Len(cov) - 1) : cov[i] < cov[i + 1]
          /\ \A r \in {"blk", "zhdr", "type", "len"} :
               \A i \in 1..Len(cov) : png_file[cov[i]].tag # r
          /\ \A i \in 1..Len(cov) :
               LET before == IF i = 1 THEN 0
                             ELSE (png_file[cov[i - 1]].y * rs)
                                  + png_file[cov[i - 1]].from + png_file[cov[i - 1]].n
               IN  (png_file[cov[i]].y * rs) + png_file[cov[i]].from = before
          /\ LET last == png_file[cov[Len(cov)]]
             IN  (last.y * rs) + last.from + last.n = n
          /\ n <= SmallPayload =>
               /\ AdlerValue(cov, Len(cov))
                    = << RunningSum(n) % ADLER_MOD, (1 + SumUpTo(n)) % ADLER_MOD >>
               /\ \A k \in 0..n :
                    LET d == [i \in 1..n |-> PayloadByte(i - 1)]
                    IN  adler32_update(adler32_update(<<0, 1>>, SubSeq(d, 1, k)),
                                       SubSeq(d, k + 1, n))
                          = AdlerValue(cov, Len(cov))

\* a trailer has been written over a row that three blocks share
C23_Witness ==
  \E c \in RecsOf("adler", "IDAT") :
    /\ Len(png_file[c].cover) = 3
    /\ png_height = 1
    /\ Cardinality(RecsOf("blk", "IDAT")) = 3

\* ---------------------------------------------------------------------
\* capture_work_handler followed through capture_for_ble, with every
\* allocation and release counted
\* ---------------------------------------------------------------------

\* errors of the camera calls: -ENODEV, -EIO
VideoErrs == {-19, -5}

\* what video_dequeue does after 10 s without a frame: -EAGAIN, or 0 with
\* no buffer
NoFrameResults == {-11, 0}

\* everything the job leaves alone
jobFrame == <<devVars, work_pending, pending_origin, link, refs, air, jobVars,
              rxVars, histVars, pngVars, calcVars, capVars, fnVars, appVars>>

\* one more allocation, one more release of the buffer counted in c
Allocated(c) == [c EXCEPT !.allocs = @ + 1]
Released(c) == [c EXCEPT !.frees = @ + 1]

\* the handler is called with a session and calls capture_for_ble
JobCall ==
  /\ cfb_pc \in {"idle", "done"}
  /\ cfb_pc' = "probe"
  /\ cfb' = CfbEntry
  /\ heap' = HeapEmpty
  /\ env' = EnvIdle
  /\ UNCHANGED jobFrame

\* device_is_ready, ov2640_detected, video_get_caps, the format choice or
\* video_set_format fails: return
ProbeFailed(e) ==
  /\ cfb_pc = "probe"
  /\ cfb' = [cfb EXCEPT !.ret = e]
  /\ cfb_pc' = "returned"
  /\ UNCHANGED <<heap, env>>
  /\ UNCHANGED jobFrame

\* the format is set; buffer_count = n
ProbeOk(n) ==
  /\ cfb_pc = "probe"
  /\ cfb' = [cfb EXCEPT !.buffer_count = n, !.i = 0]
  /\ cfb_pc' = "alloc"
  /\ UNCHANGED <<heap, env>>
  /\ UNCHANGED jobFrame

\* buffers[i] = video_buffer_aligned_alloc(...)
AllocBuffer ==
  /\ cfb_pc = "alloc"
  /\ cfb.i < cfb.buffer_count
  /\ \/ /\ cfb' = [cfb EXCEPT !.buffers[cfb.i + 1] = "held"]
        /\ heap' = [heap EXCEPT !.buf[cfb.i + 1] = Allocated(@)]
        /\ cfb_pc' = "enqueue"
     \/ /\ cfb' = [cfb EXCEPT !.ret = -12]
        /\ cfb_pc' = "cleanup"
        /\ UNCHANGED heap
  /\ UNCHANGED env
  /\ UNCHANGED jobFrame

\* video_enqueue(camera, buffers[i])
EnqueueBuffer ==
  /\ cfb_pc = "enqueue"
  /\ \/ /\ env' = [env EXCEPT !.enqueued = @ \cup {cfb.i + 1}]
        /\ cfb' = [cfb EXCEPT !.ret = 0, !.i = @ + 1]
        /\ cfb_pc' = "alloc"
     \/ /\ \E e \in VideoErrs : cfb' = [cfb EXCEPT !.ret = e]
        /\ cfb_pc' = "cleanup"
        /\ UNCHANGED env
  /\ UNCHANGED heap
  /\ UNCHANGED jobFrame

\* video_stream_start
StreamStart ==
  /\ cfb_pc = "alloc"
  /\ cfb.i = cfb.buffer_count
  /\ \/ /\ cfb' = [cfb EXCEPT !.ret = 0, !.streaming = TRUE]
        /\ env' = [env EXCEPT !.stream_on = TRUE]
        /\ cfb_pc' = "dequeue"
     \/ /\ \E e \in VideoErrs : cfb' = [cfb EXCEPT !.ret = e]
        /\ cfb_pc' = "cleanup"
        /\ UNCHANGED env
  /\ UNCHANGED heap
  /\ UNCHANGED jobFrame

\* video_dequeue delivers a frame; video_stream_stop; streaming = false
DequeueFrame ==
  /\ cfb_pc = "dequeue"
  /\ \E b \in env.enqueued :
       /\ cfb' = [cfb EXCEPT !.ret = 0, !.dequeued = b, !.streaming = FALSE]
       /\ env' = [env EXCEPT !.stream_on = FALSE, !.stops = @ + 1,
                             !.enqueued = @ \ {b}]
  /\ cfb_pc' = "malloc"
  /\ UNCHANGED heap
  /\ UNCHANGED jobFrame

\* (a dequeue that returned 0 without a buffer taken for a frame)
DequeueTimeout_NullUnchecked(r) ==
  /\ cfb_pc = "dequeue"
  /\ cfb' = [cfb EXCEPT !.ret = r, !.streaming = FALSE]
  /\ env' = [env EXCEPT !.stream_on = FALSE, !.stops = @ + 1, !.noframe = TRUE]
  /\ cfb_pc' = IF r # 0 THEN "cleanup" ELSE "malloc"
  /\ UNCHANGED heap
  /\ UNCHANGED jobFrame

\* video_dequeue delivers nothing within its timeout; video_stream_stop;
\* streaming = false; ret = ret ? ret : -EIO; goto cleanup
DequeueTimeout(r) ==
  /\ cfb_pc = "dequeue"
  /\ cfb' = [cfb EXCEPT !.ret = IF r # 0 THEN r ELSE -5, !.streaming = FALSE]
  /\ env' = [env EXCEPT !.stream_on = FALSE, !.stops = @ + 1, !.noframe = TRUE]
  /\ cfb_pc' = "cleanup"
  /\ UNCHANGED heap
  /\ UNCHANGED jobFrame

\* *data = k_malloc(dequeued->bytesused), the copy, ret = 0
AllocImage ==
  /\ cfb_pc = "malloc"
  /\ \/ /\ cfb' = [cfb EXCEPT !.data = "held", !.ret = 0]
        /\ heap' = [heap EXCEPT !.img = Allocated(@)]
     \/ /\ cfb' = [cfb EXCEPT !.ret = -12]
        /\ UNCHANGED heap
  /\ cfb_pc' = "cleanup"
  /\ UNCHANGED env
  /\ UNCHANGED jobFrame

\* (a cleanup that releases the buffers the driver still holds only)
Cleanup_EnqueuedOnly ==
  /\ cfb_pc = "cleanup"
  /\ env' = [env EXCEPT
               !.stream_on = IF cfb.streaming THEN FALSE ELSE @,
               !.stops = IF cfb.streaming THEN @ + 1 ELSE @,
               !.enqueued = {}]
  /\ heap' = [heap EXCEPT
                !.buf = [k \in 1..MaxBuffers |->
                           IF k <= cfb.buffer_count /\ k \in env.enqueued
                             THEN Released(@[k]) ELSE @[k]]]
  /\ cfb_pc' = "returned"
  /\ UNCHANGED cfb
  /\ UNCHANGED jobFrame

\* cleanup: video_stream_stop if still streaming, video_buffer_release of
\* every buffers[i] that is not NULL, return ret
Cleanup ==
  /\ cfb_pc = "cleanup"
  /\ env' = [env EXCEPT
               !.stream_on = IF cfb.streaming THEN FALSE ELSE @,
               !.stops = IF cfb.streaming THEN @ + 1 ELSE @,
               !.enqueued = {}]
  /\ heap' = [heap EXCEPT
                !.buf = [k \in 1..MaxBuffers |->
                           IF k <= cfb.buffer_count /\ cfb.buffers[k] # "NULL"
                             THEN Released(@[k]) ELSE @[k]]]
  /\ cfb_pc' = "returned"
  /\ UNCHANGED cfb
  /\ UNCHANGED jobFrame

\* capture_for_ble returned an error: the handler returns
JobCaptureFailed ==
  /\ cfb_pc = "returned"
  /\ cfb.ret # 0
  /\ cfb_pc' = "done"
  /\ UNCHANGED <<cfb, heap, env>>
  /\ UNCHANGED jobFrame

\* send_image_metadata; on an error k_free(data) and return
JobSendMetadata ==
  /\ cfb_pc = "returned"
  /\ cfb.ret = 0
  /\ \/ /\ env' = [env EXCEPT !.notified = Append(@, "meta")]
        /\ cfb_pc' = "data"
        /\ UNCHANGED <<cfb, heap>>
     \/ /\ \E e \in {-128, -12} : cfb' = [cfb EXCEPT !.ret = e, !.data = "freed"]
        /\ heap' = [heap EXCEPT !.img = Released(@)]
        /\ cfb_pc' = "done"
        /\ UNCHANGED env
  /\ UNCHANGED jobFrame

\* send_image_data, to its end or to a failed chunk; then k_free(data)
JobSendData ==
  /\ cfb_pc = "data"
  /\ \/ /\ env' = [env EXCEPT !.notified = Append(@, "data")]
        /\ cfb' = [cfb EXCEPT !.data = "freed"]
     \/ /\ \E e \in {-128, -12} : cfb' = [cfb EXCEPT !.ret = e, !.data = "freed"]
        /\ UNCHANGED env
  /\ heap' = [heap EXCEPT !.img = Released(@)]
  /\ cfb_pc' = "done"
  /\ UNCHANGED jobFrame

capture_for_ble ==
  \/ \E e \in VideoErrs : ProbeFailed(e)
  \/ \E n \in 1..MaxBuffers : ProbeOk(n)
  \/ AllocBuffer
  \/ EnqueueBuffer
  \/ StreamStart
  \/ DequeueFrame
  \/ \E r \in NoFrameResults : DequeueTimeout(r)
  \/ AllocImage
  \/ Cleanup

capture_work_handler ==
  \/ JobCall
  \/ capture_for_ble
  \/ JobCaptureFailed
  \/ JobSendMetadata
  \/ JobSendData

NextJob == capture_work_handler

SpecJob == Init /\ [][NextJob]_vars

\* C24: when video_dequeue comes back without a frame, capture_for_ble
\* fails and the handler returns at once: nothing is notified to the peer,
\* the video stream has been stopped (once), no image buffer was
\* allocated, and when capture_for_ble has returned every frame buffer
\* that was allocated and enqueued has been released once and none is
\* left with the driver.
C24_NoFrameFailsCleanly ==
  /\ [](env.noframe =>
          /\ cfb_pc \in {"cleanup", "returned", "done"}
          /\ cfb.ret # 0
          /\ env.notified = <<>>
          /\ ~env.stream_on /\ env.stops = 1 /\ ~cfb.streaming
          /\ cfb.data = "NULL" /\ heap.img = [allocs |-> 0, frees |-> 0]
          /\ cfb.buffer_count >= 1
          /\ \A k \in 1..cfb.buffer_count : heap.buf[k].allocs = 1
          /\ cfb_pc \in {"returned", "done"} =>
               /\ env.enqueued = {}
               /\ \A k \in 1..MaxBuffers :
                    heap.buf[k].frees = heap.buf[k].allocs)
  /\ [][(env.noframe /\ cfb_pc = "returned") => cfb_pc' = "done"]_vars

\* a job whose two frame buffers were enqueued ended without a frame
C24_Witness ==
  /\ env.noframe /\ cfb_pc = "done" /\ cfb.buffer_count = 2
  /\ cfb.ret = -5
  /\ heap.buf[2] = [allocs |-> 1, frees |-> 1]

\* the handler's job and an encoder call, side by side
NextBuffers ==
  \/ capture_work_handler
  \/ \E fmt \in PngFormats, d \in PngDims : PngCall(fmt, d[1], d[2])
  \/ Encoder

SpecBuffers == Init /\ [][NextBuffers]_vars

\* positions of the encoder at which the row buffer is in use: a release
\* there releases a held buffer
RowBufPcs == {"row", "zwd", "zwdata"}

\* C25: every buffer allocated is released exactly once on every exit
\* path after its allocation.  The image copy and each frame buffer are
\* allocated at most once per job and never released more often than
\* allocated; once capture_for_ble has returned every frame buffer
\* allocated has been released, and once the handler has returned so has
\* the image copy.  The encoder's row buffer is held exactly while the row
\* loop runs, is released when the loop ends or fails, and stays released.
C25_BuffersReleasedOnce ==
  /\ [](/\ heap.img.allocs <= 1 /\ heap.img.frees <= heap.img.allocs
        /\ (cfb.data = "held") = (heap.img.allocs = 1 /\ heap.img.frees = 0)
        /\ cfb_pc = "done" => heap.img.frees = heap.img.allocs
        /\ \A k \in 1..MaxBuffers :
             /\ heap.buf[k].allocs <= 1 /\ heap.buf[k].frees <= heap.buf[k].allocs
             /\ cfb_pc \in {"returned", "data", "done"} =>
                  heap.buf[k].frees = heap.buf[k].allocs
             /\ cfb_pc \in {"alloc", "enqueue", "dequeue", "malloc", "cleanup"} =>
                  heap.buf[k].frees = 0
        /\ (row_buf = "held") = (png_pc \in RowBufPcs)
        /\ png_pc = "done" => row_buf \in {"none", "freed"}
        /\ png_pc = "done" /\ png_ret = 0 => row_buf = "freed")
  /\ [][/\ row_buf = "freed" => row_buf' = "freed"
        /\ row_buf' = "freed" /\ row_buf # "freed" => row_buf = "held"
        /\ row_buf' = "held" /\ row_buf # "held" => row_buf = "none"]_vars

\* a job that sent its image has returned with both frame buffers and the
\* image copy released, and an encoder call has failed inside the row loop
C25_Witness ==
  /\ cfb_pc = "done" /\ cfb.ret = 0 /\ cfb.buffer_count = 2
  /\ heap.img = [allocs |-> 1, frees |-> 1]
  /\ heap.buf[2] = [allocs |-> 1, frees |-> 1]
  /\ png_pc = "done" /\ png_ret = -5 /\ row_buf = "freed"

\* ---------------------------------------------------------------------
\* Writes to the capture characteristic, with what capture_write returns
\* ---------------------------------------------------------------------
NextWrite ==
  \/ \E buf \in CaptureWrites : GattWrite(buf)
  \/ GattWriteAnswered
  \/ \E v \in CccValues : image_data_ccc_changed(v)
  \/ \E v \in CccValues : image_meta_ccc_changed(v)
  \/ \E c \in ConnIds : LinkDown(c)
  \/ \E c \in ConnIds : disconnected(c)
  \/ Worker
  \/ Drain

\* one session of a connected peer
SpecWrite == InitTransfer /\ [][NextWrite]_vars

\* C26: a write to the capture characteristic whose first byte is 0x01
\* requests a capture (capture_requested is set and the work item is
\* submitted) and returns its length; a non-empty write with another first
\* byte returns its length and starts nothing; an empty write returns the
\* invalid-attribute-length error and changes no state.
C26_OnlyCommandByteStartsCapture ==
  [][(fn_pc = "idle" /\ fn_pc' = "returned") =>
       LET buf == fn_args'[1]
           rv == fn_ret'[1]
       IN  /\ Len(buf) = 0 =>
                /\ rv = -13
                /\ UNCHANGED <<devVars, work_pending, pending_origin, link, refs,
                               air, jobVars>>
           /\ Len(buf) >= 1 => rv = Len(buf)
           /\ (Len(buf) >= 1 /\ buf[1] = 1) => (capture_requested' /\ work_pending')
           /\ (Len(buf) >= 1 /\ buf[1] # 1) =>
                UNCHANGED <<devVars, work_pending, pending_origin, link, refs,
                            air, jobVars>>]_vars

\* a two-byte write starting with 0x01 has been answered with 2 and has
\* submitted the work item
C26_Witness ==
  /\ fn_pc = "returned" /\ fn_args = <<(<<1, 0>>)>> /\ fn_ret = <<2>>
  /\ capture_requested /\ work_pending

\* ---------------------------------------------------------------------
\* The metadata record: send_image_metadata, then ImageMetadata.fromBytes
\* ---------------------------------------------------------------------

\* the 16-bit values: a width, a height, a half of a size
Halfwords == 0..(U16 - 1)

\* the arguments the record is built from: every value of each field
\* beside fixed values of the others, or a corner
MetaArgs(a) ==
  \/ \E v \in Halfwords : a = <<v, 4660, <<35243, 52719>>>>
  \/ \E v \in Halfwords : a = <<4660, v, <<35243, 52719>>>>
  \/ \E v \in Halfwords : a = <<4660, 22136, <<v, 52719>>>>
  \/ \E v \in Halfwords : a = <<4660, 22136, <<35243, v>>>>
  \/ \E w \in {0, 65535}, h \in {0, 65535}, hi \in {0, 32768, 65535},
        lo \in {0, 65535} : a = <<w, h, <<hi, lo>>>>

\* the sender builds the record and the receiver parses it
MetadataRoundTrip ==
  /\ fn_pc = "send_image_metadata"
  /\ LET meta == MetaBytes32(fn_args[1], fn_args[2], fn_args[3])
     IN  fn_ret' = <<meta, fromBytes32(meta)>>
  /\ fn_pc' = "done"
  /\ UNCHANGED fn_args
  /\ UNCHANGED fnFrame

InitMeta ==
  /\ BleInit /\ PngIdle /\ CkIdle /\ CvIdle /\ CapIdle /\ JobIdle /\ AppIdle
  /\ fn_pc = "send_image_metadata"
  /\ MetaArgs(fn_args)
  /\ fn_ret = <<>>

NextMeta == MetadataRoundTrip

SpecMeta == InitMeta /\ [][NextMeta]_vars

\* C27: the metadata record is 12 bytes: the width in bytes 0-1 and the
\* height in bytes 2-3, low byte first, the size in bytes 4-7, low byte
\* first, and the four ASCII characters R G B 5; parsing it gives back the
\* width, the height and the size it was built from.
C27_MetadataRoundTrip ==
  fn_pc = "done" =>
    LET w == fn_args[1]
        h == fn_args[2]
        sz == fn_args[3]
        meta == fn_ret[1]
        parsed == fn_ret[2]
    IN  /\ Len(meta) = 12
        /\ \A k \in 1..12 : meta[k] \in 0..255
        /\ meta[1] + (256 * meta[2]) = w
        /\ meta[3] + (256 * meta[4]) = h
        /\ meta[5] + (256 * meta[6]) = sz[2]
        /\ meta[7] + (256 * meta[8]) = sz[1]
        /\ SubSeq(meta, 9, 12) = <<82, 71, 66, 53>>
        /\ parsed.width = w
        /\ parsed.height = h
        /\ parsed.size = sz
        /\ parsed.format = <<82, 71, 66, 53>>

\* the record of a 65535 x 65535 image of 0xFFFFFFFF bytes has been parsed
C27_Witness ==
  /\ fn_pc = "done"
  /\ fn_args = <<65535, 65535, <<65535, 65535>>>>
  /\ fn_ret[2].size = <<65535, 65535>>

(***************************************************************************)
(* The companion application over the firmware: CameraProvider, which      *)
(* listens to the two streams of BleService, and the capture button of     *)
(* the home screen.  A broadcast stream delivers an event to its listener  *)
(* before the next notification is handled, so a handler of BleService     *)
(* and the listener it wakes are one step.                                 *)
(***************************************************************************)
\* the link of the application's connection is up
AppLinkUp == \E c \in ConnIds : link[c] = "up"

\* BleService.connect has come back and the connectionState listener of
\* CameraProvider has run: _connectionStatus = connected
AppConnected ==
  /\ AppLinkUp
  /\ connectionStatus = "disconnected"
  /\ connectionStatus' = "connected"
  /\ UNCHANGED <<isCapturing, fnVars, memVars>>
  /\ UNCHANGED <<devVars, work_pending, pending_origin, link, refs, air>>
  /\ UNCHANGED <<jobVars, rxVars, histVars, pngVars, calcVars, capVars>>

\* BleService._handleDisconnection and the connectionState listener:
\* _connectionStatus = disconnected; the transfer state of BleService and
\* _isCapturing are left as they are
handleDisconnection ==
  /\ ~AppLinkUp
  /\ connectionStatus = "connected"
  /\ connectionStatus' = "disconnected"
  /\ UNCHANGED <<isCapturing, fnVars, memVars>>
  /\ UNCHANGED <<devVars, work_pending, pending_origin, link, refs, air>>
  /\ UNCHANGED <<jobVars, rxVars, histVars, pngVars, calcVars, capVars>>

\* what the listeners of CameraProvider make of the notification BleService
\* is handling: metadataReceived sets _isCapturing, imageReceived clears it
ListenersOf(m) ==
  IF m.ch = "meta"
    THEN IF Len(m.bytes) >= META_LEN THEN TRUE ELSE isCapturing
    ELSE IF rx_meta # <<>> /\ rx_received + Len(m.bytes) >= rx_meta[1].size
           THEN FALSE
           ELSE isCapturing

\* a notification reaches BleService and, through it, CameraProvider
AppReceive ==
  /\ ReceiveBody
  /\ isCapturing' = ListenersOf(Head(air))
  /\ UNCHANGED connectionStatus

\* the capture button, enabled while _isCapturing is false, and
\* CameraProvider.capture of a connected application whose write of 0x01
\* reaches capture_write; in its other branches (not connected, the write
\* throws) capture leaves _isCapturing false
capture ==
  /\ ~isCapturing
  /\ connectionStatus = "connected"
  /\ CaptureWriteBody(<<CMD_CAPTURE>>)
  /\ isCapturing' = TRUE
  /\ UNCHANGED <<connectionStatus, fnVars>>

NextApp ==
  \/ \E c \in ConnIds : connected(c, 0)
  \/ AppConnected
  \/ image_data_ccc_changed(BT_GATT_CCC_NOTIFY)
  \/ image_meta_ccc_changed(BT_GATT_CCC_NOTIFY)
  \/ capture
  \/ Worker
  \/ AppReceive
  \/ \E c \in ConnIds : LinkDown(c)
  \/ \E c \in ConnIds : disconnected(c)
  \/ handleDisconnection

\* the workqueue thread runs, notifications in flight are delivered, and
\* the callbacks of both sides are called
SpecApp ==
  /\ Init
  /\ [][NextApp]_vars
  /\ WF_vars(Worker)
  /\ WF_vars(AppReceive)
  /\ WF_vars(AppConnected)
  /\ WF_vars(handleDisconnection)
  /\ WF_vars(\E c \in ConnIds : disconnected(c))

\* C28: if a job fails after the metadata record was sent, the receiver
\* does not wait forever for the declared size: it eventually leaves its
\* receiving and capturing state, so that a new capture can be requested.
C28_ReceiverRecovers ==
  (outcome = "TransferAborted") ~> (~isCapturing /\ rx_meta = <<>>)

(***************************************************************************)
(* bmp_write_rgb565: the flat encoder of capture_to_sd.  fn_args holds     *)
(* width, height and pitch, fn_ret the locals of the call and the writes   *)
(* of fs_write_all that succeeded, in order.                               *)
(***************************************************************************)
\* the frames encoded: every width up to MaxBmpWidth (so every padding of
\* 0 to 3 bytes) with every height up to MaxBmpHeight, and the frame of the
\* sensor's default mode.  A frame is a buffer in memory, so none of the
\* 32-bit products of the encoder wraps.
MaxBmpWidth == 6
MaxBmpHeight == 4
BMP_HEADER_SIZE == 54

BmpDims ==
  { <<w, h>> : w \in 1..MaxBmpWidth, h \in 1..MaxBmpHeight } \cup { <<160, 120>> }

\* the four bytes of v, low byte first, as the header stores them
LE32(v) == << v % 256, (v \div 256) % 256, (v \div 65536) % 256,
              (v \div 16777216) % 256 >>

\* row_size = ((width * 3 + 3) / 4) * 4
BmpRowSize(w) == (((w * 3) + 3) \div 4) * 4

\* header[54] as lines 761-789 fill it
BmpHeader(w, h) ==
  LET pixel_data_size == BmpRowSize(w) * h
      file_size == BMP_HEADER_SIZE + pixel_data_size
  IN  <<66, 77>> \o LE32(file_size) \o <<0, 0, 0, 0>> \o <<54, 0, 0, 0>>
      \o <<40, 0, 0, 0>> \o LE32(w) \o LE32(h) \o <<1, 0>> \o <<24, 0>>
      \o <<0, 0, 0, 0>> \o LE32(pixel_data_size)
      \o <<0, 0, 0, 0, 0, 0, 0, 0, 0, 0, 0, 0, 0, 0, 0, 0>>

\* row_buf after the memset and the pixel loop over source row y
BmpRowBuf(w, y) ==
  [k \in 1..BmpRowSize(w) |->
     LET x == (k - 1) \div 3
     IN  IF x < w
           THEN Rgb565ToBgr(SrcByte(y, 2 * x), SrcByte(y, (2 * x) + 1))[((k - 1) % 3) + 1]
           ELSE 0]

\* both allocators return NULL: -ENOMEM, nothing written
BmpNoMemory ==
  /\ fn_pc = "bmp_write_rgb565"
  /\ fn_pc' = "returned"
  /\ fn_ret' = [fn_ret EXCEPT !.ret = -12]
  /\ UNCHANGED fn_args
  /\ UNCHANGED fnFrame

\* the header is filled and written; a failed write frees row_buf and
\* returns the error
BmpWriteHeader ==
  /\ fn_pc = "bmp_write_rgb565"
  /\ \/ /\ fn_pc' = "rows"
        /\ fn_ret' = [fn_ret EXCEPT
                        !.file = <<[y |-> -1, bytes |-> BmpHeader(fn_args[1], fn_args[2])]>>,
                        !.y = fn_args[2] - 1,
                        !.row_buf = "held"]
     \/ \E e \in SinkErrs :
          /\ fn_pc' = "returned"
          /\ fn_ret' = [fn_ret EXCEPT !.ret = e, !.row_buf = "freed"]
  /\ UNCHANGED fn_args
  /\ UNCHANGED fnFrame

\* (a row loop from the top of the frame down)
BmpWriteRow_TopDown ==
  /\ fn_pc = "rows"
  /\ fn_ret.y >= 0
  /\ fn_ret' = [fn_ret EXCEPT
                  !.file = Append(@, [y |-> fn_args[2] - 1 - fn_ret.y,
                                      bytes |-> BmpRowBuf(fn_args[1], fn_args[2] - 1 - fn_ret.y)]),
                  !.y = @ - 1]
  /\ UNCHANGED <<fn_pc, fn_args>>
  /\ UNCHANGED fnFrame

\* one iteration of the loop over y, lines 798-820
BmpWriteRow ==
  /\ fn_pc = "rows"
  /\ fn_ret.y >= 0
  /\ \/ /\ fn_ret' = [fn_ret EXCEPT
                        !.file = Append(@, [y |-> fn_ret.y,
                                            bytes |-> BmpRowBuf(fn_args[1], fn_ret.y)]),
                        !.y = @ - 1]
        /\ UNCHANGED fn_pc
     \/ \E e \in SinkErrs :
          /\ fn_pc' = "returned"
          /\ fn_ret' = [fn_ret EXCEPT !.ret = e, !.row_buf = "freed"]
  /\ UNCHANGED fn_args
  /\ UNCHANGED fnFrame

\* the loop is over, lines 822-824: row_buf is freed, 0 is returned
BmpDone ==
  /\ fn_pc = "rows"
  /\ fn_ret.y < 0
  /\ fn_pc' = "returned"
  /\ fn_ret' = [fn_ret EXCEPT !.ret = 0, !.row_buf = "freed"]
  /\ UNCHANGED fn_args
  /\ UNCHANGED fnFrame

InitBmp ==
  /\ BleInit /\ PngIdle /\ CkIdle /\ CvIdle /\ CapIdle /\ JobIdle /\ AppIdle
  /\ fn_pc = "bmp_write_rgb565"
  /\ \E d \in BmpDims : fn_args = <<d[1], d[2], 2 * d[1]>>
  /\ fn_ret = [file |-> <<>>, y |-> 0, ret |-> 0, row_buf |-> "none"]

NextBmp == BmpNoMemory \/ BmpWriteHeader \/ BmpWriteRow \/ BmpDone

SpecBmp == InitBmp /\ [][NextBmp]_vars

RECURSIVE BytesWritten(_)
\* the number of bytes of the writes in f
BytesWritten(f) == IF f = <<>> THEN 0 ELSE Len(Head(f).bytes) + BytesWritten(Tail(f))

\* the number the four bytes of b from offset off on (counted from 0) spell,
\* low byte first
FieldAt(b, off) ==
  b[off + 1] + (256 * b[off + 2]) + (65536 * b[off + 3]) + (16777216 * b[off + 4])

\* C29: a call of the flat encoder that returns 0 has written a 54-byte
\* header and then exactly height rows, source row height-1 first down to
\* row 0; each row holds, for every pixel, its blue, green and red byte in
\* that order and then zero bytes up to the next multiple of 4 of width*3;
\* the header's total-size field and pixel-data-size field are the number
\* of bytes written and that number less the header.
C29_BmpLayout ==
  (fn_pc = "returned" /\ fn_ret.ret = 0) =>
    LET w    == fn_args[1]
        h    == fn_args[2]
        f    == fn_ret.file
        hdr  == f[1].bytes
        rows == Tail(f)
    IN  /\ Len(hdr) = 54
        /\ hdr[1] = 66 /\ hdr[2] = 77
        /\ Len(rows) = h
        /\ \A k \in 1..h :
             LET r == rows[k].bytes
             IN  /\ rows[k].y = h - k
                 /\ Len(r) % 4 = 0
                 /\ Len(r) >= w * 3
                 /\ Len(r) < (w * 3) + 4
                 /\ \A x \in 0..(w - 1) :
                      LET rgb == Rgb565ToRgb(SrcByte(h - k, 2 * x),
                                             SrcByte(h - k, (2 * x) + 1))
                      IN  /\ r[(3 * x) + 1] = rgb[3]
                          /\ r[(3 * x) + 2] = rgb[2]
                          /\ r[(3 * x) + 3] = rgb[1]
                 /\ \A i \in ((w * 3) + 1)..Len(r) : r[i] = 0
                 /\ FieldAt(hdr, 2) = 54 + (Len(r) * h)
                 /\ FieldAt(hdr, 34) = Len(r) * h
        /\ FieldAt(hdr, 2) = BytesWritten(f)
        /\ FieldAt(hdr, 34) = BytesWritten(rows)
        /\ FieldAt(hdr, 10) = 54
        /\ FieldAt(hdr, 18) = w
        /\ FieldAt(hdr, 22) = h
        /\ hdr[27] = 1 /\ hdr[28] = 0
        /\ hdr[29] = 24 /\ hdr[30] = 0

\* a frame of three rows of five pixels, each padded by one byte, has been
\* encoded, row 2 first
C29_Witness ==
  /\ fn_pc = "returned"
  /\ fn_ret.ret = 0
  /\ fn_args[1] = 5
  /\ fn_args[2] = 3
  /\ Len(fn_ret.file) = 4
  /\ Len(fn_ret.file[2].bytes) = 16
  /\ fn_ret.file[2].y = 2

(***************************************************************************)
(* The pixel loop of png_write_yuyv over one source row.  fn_args holds    *)
(* width and y; fn_ret holds x, row_buf (-1 where nothing was stored yet), *)
(* the pixels stored in the order of storing, the indices written outside  *)
(* row_buf, and the V byte read for a trailing incomplete pair.            *)
(***************************************************************************)
\* the widest row converted
MaxYuyvWidth == 6

YuyvRows == { <<w, y>> : w \in 1..MaxYuyvWidth, y \in 0..1 }

\* row_buf[idx] = val, for row_buf = k_malloc(1 + width * 3)
StoreByte(r, idx, val) ==
  IF idx \in DOMAIN r.row_buf
    THEN [r EXCEPT !.row_buf[idx] = val]
    ELSE [r EXCEPT !.outside = @ \cup {idx}]

\* the three stores of pixel x, lines 744-746 and 752-754
StoreTriple(r, x, rgb) ==
  LET r1 == StoreByte(r, 1 + (x * 3), rgb[1])
      r2 == StoreByte(r1, 1 + (x * 3) + 1, rgb[2])
      r3 == StoreByte(r2, 1 + (x * 3) + 2, rgb[3])
  IN  [r3 EXCEPT !.stored = Append(@, x)]

\* row_buf[0] = 0, line 728
YuyvRowStart ==
  /\ fn_pc = "png_write_yuyv"
  /\ fn_pc' = "pixels"
  /\ fn_ret' = StoreByte(fn_ret, 0, 0)
  /\ UNCHANGED fn_args
  /\ UNCHANGED fnFrame

\* (an iteration that stores the second pixel without looking at width)
YuyvPair_SecondAlways ==
  /\ fn_pc = "pixels"
  /\ fn_ret.x < fn_args[1]
  /\ LET x  == fn_ret.x
         y  == fn_args[2]
         y0 == SrcByte(y, (x * 2) + 0)
         u  == SrcByte(y, (x * 2) + 1)
         y1 == SrcByte(y, (x * 2) + 2)
         v  == SrcByte(y, (x * 2) + 3)
         r1 == StoreTriple(fn_ret, x, YuyvToRgb(y0, u, v))
         r2 == StoreTriple(r1, x + 1, YuyvToRgb(y1, u, v))
     IN  fn_ret' = [r2 EXCEPT !.x = x + 2]
  /\ UNCHANGED <<fn_pc, fn_args>>
  /\ UNCHANGED fnFrame

\* one iteration of the loop over x, lines 730-756.  For the last pixel of
\* an odd width, row[(x * 2) + 2] and row[(x * 2) + 3] lie after the
\* width * 2 bytes of the row: in the padding, the next row, or after the
\* frame; the V byte read there is any byte
YuyvPair ==
  /\ fn_pc = "pixels"
  /\ fn_ret.x < fn_args[1]
  /\ LET x  == fn_ret.x
         y  == fn_args[2]
         y0 == SrcByte(y, (x * 2) + 0)
         u  == SrcByte(y, (x * 2) + 1)
         y1 == SrcByte(y, (x * 2) + 2)
     IN  \E v \in (IF x + 1 < fn_args[1] THEN {SrcByte(y, (x * 2) + 3)} ELSE Bytes) :
           LET r1 == StoreTriple(fn_ret, x, YuyvToRgb(y0, u, v))
               r2 == IF x + 1 < fn_args[1]
                       THEN StoreTriple(r1, x + 1, YuyvToRgb(y1, u, v))
                       ELSE [r1 EXCEPT !.v_after = <<v>>]
           IN  fn_ret' = [r2 EXCEPT !.x = x + 2]
  /\ UNCHANGED <<fn_pc, fn_args>>
  /\ UNCHANGED fnFrame

\* the loop over x is over: the row goes to zlib_write_data, line 758
YuyvRowDone ==
  /\ fn_pc = "pixels"
  /\ ~(fn_ret.x < fn_args[1])
  /\ fn_pc' = "row_done"
  /\ UNCHANGED <<fn_args, fn_ret>>
  /\ UNCHANGED fnFrame

InitYuyv ==
  /\ BleInit /\ PngIdle /\ CkIdle /\ CvIdle /\ CapIdle /\ JobIdle /\ AppIdle
  /\ fn_pc = "png_write_yuyv"
  /\ fn_args \in YuyvRows
  /\ fn_ret = [x |-> 0, row_buf |-> [k \in 0..(fn_args[1] * 3) |-> -1],
               stored |-> <<>>, outside |-> {}, v_after |-> <<>>]

NextYuyv == YuyvRowStart \/ YuyvPair \/ YuyvRowDone

SpecYuyv == InitYuyv /\ [][NextYuyv]_vars

\* the triple of row_buf for pixel x
TripleAt(buf, x) == << buf[1 + (x * 3)], buf[2 + (x * 3)], buf[3 + (x * 3)] >>

\* C30: a converted row holds exactly width triples after the filter byte,
\* each pixel stored once; both pixels of a 4-byte group are converted with
\* that group's U and V; for an odd width the trailing pair gives its first
\* pixel only, and nothing is ever stored outside the width*3+1 bytes of
\* the row buffer.
C30_YuyvRow ==
  /\ fn_pc \in {"pixels", "row_done"} => fn_ret.outside = {}
  /\ fn_pc = "row_done" =>
       LET w   == fn_args[1]
           y   == fn_args[2]
           buf == fn_ret.row_buf
       IN  /\ DOMAIN buf = 0..(w * 3)
           /\ buf[0] = 0
           /\ fn_ret.stored = [i \in 1..w |-> i - 1]
           /\ \A k \in 1..(w * 3) : buf[k] \in 0..255
           /\ \A x \in 0..(w - 1) :
                (x % 2 = 0 /\ x + 1 < w) =>
                  LET u == SrcByte(y, (x * 2) + 1)
                      v == SrcByte(y, (x * 2) + 3)
                  IN  /\ TripleAt(buf, x) = YuyvToRgb(SrcByte(y, x * 2), u, v)
                      /\ TripleAt(buf, x + 1) = YuyvToRgb(SrcByte(y, (x * 2) + 2), u, v)
           /\ w % 2 = 1 =>
                /\ fn_ret.v_after # <<>>
                /\ TripleAt(buf, w - 1) =
                     YuyvToRgb(SrcByte(y, (w - 1) * 2), SrcByte(y, ((w - 1) * 2) + 1),
                               fn_ret.v_after[1])

\* a row of five pixels has been converted: two groups and the first pixel
\* of a third
C30_Witness ==
  /\ fn_pc = "row_done"
  /\ fn_args[1] = 5
  /\ fn_ret.stored = <<0, 1, 2, 3, 4>>
  /\ fn_ret.x = 6

(***************************************************************************)
(* The conversion of png_write_yuyv for every luma and every chroma pair:  *)
(* fn_args holds the U and V of a group, fn_ret the triple stored for      *)
(* every luma sample that may stand beside them.                           *)
(***************************************************************************)
\* the triples of a group with chroma u, v, by luma
YuyvGroup ==
  /\ fn_pc = "yuyv_group"
  /\ fn_ret' = [yy \in Bytes |-> YuyvToRgb(yy, fn_args[1], fn_args[2])]
  /\ fn_pc' = "converted"
  /\ UNCHANGED fn_args
  /\ UNCHANGED fnFrame

InitGroup ==
  /\ BleInit /\ PngIdle /\ CkIdle /\ CvIdle /\ CapIdle /\ JobIdle /\ AppIdle
  /\ fn_pc = "yuyv_group"
  /\ \E u \in Bytes, v \in Bytes : fn_args = <<u, v>>
  /\ fn_ret = <<>>

NextGroup == YuyvGroup

SpecGroup == InitGroup /\ [][NextGroup]_vars

\* ch is x shifted right by 8 bits (the largest q with 256 * q <= x) and
\* then clamped to [0, 255]
IsShiftedClamped(x, ch) ==
  /\ ch \in 0..255
  /\ x < 0 => ch = 0
  /\ x >= 65536 => ch = 255
  /\ x \in 0..65535 => ((256 * ch) <= x /\ x < (256 * (ch + 1)))

\* C31: for every Y, U, V in 0..255 each channel stored is the integer
\* transform R=(298c+409e+128)>>8, G=(298c-100d-208e+128)>>8,
\* B=(298c+516d+128)>>8 with c=Y-16, d=U-128, e=V-128, clamped to [0,255];
\* Y=16, U=128, V=128 gives (0,0,0).
C31_YuyvTransform ==
  fn_pc = "converted" =>
    LET d == fn_args[1] - 128
        e == fn_args[2] - 128
    IN  /\ \A yy \in Bytes :
             LET c == yy - 16
                 rgb == fn_ret[yy]
             IN  /\ IsShiftedClamped((298 * c) + (409 * e) + 128, rgb[1])
                 /\ IsShiftedClamped((298 * c) - (100 * d) - (208 * e) + 128, rgb[2])
                 /\ IsShiftedClamped((298 * c) + (516 * d) + 128, rgb[3])
        /\ (fn_args = <<128, 128>>) => fn_ret[16] = <<0, 0, 0>>

\* the group without chroma has been converted: its black and its white,
\* and a luma above the nominal range is clamped
C31_Witness ==
  /\ fn_pc = "converted"
  /\ fn_args = <<128, 128>>
  /\ fn_ret[16] = <<0, 0, 0>>
  /\ fn_ret[235] = <<255, 255, 255>>
  /\ fn_ret[255] = <<255, 255, 255>>
  /\ fn_ret[0] = <<0, 0, 0>>

\* the application holds a reference to connection object c
Held(c) == c # NULL /\ refs[c] > 0

\* C32: the worker never calls a send with a connection the disconnect
\* handler has released or set to null: the metadata send and the call of
\* send_image_data use current_conn, every chunk send uses the conn
\* parameter of send_image_data, and each is then a reference still held.
C32_SendsUseHeldConnection ==
  [][/\ SendMeta => Held(current_conn)
     /\ CallSendData => Held(current_conn)
     /\ SendChunk => Held(conn)]_vars

(***************************************************************************)
(* main: Bluetooth is enabled and advertising has started, then the boot   *)
(* capture runs on the main thread while the stack's callbacks and the     *)
(* workqueue thread run beside it.                                         *)
(***************************************************************************)
\* the frame of the boot capture: what is encoded does not matter here
BootDims == { <<1, 1>> }

\* capture_png_to_sd as main calls it, once
BootCapture ==
  \/ \E e \in CamErrs : CaptureFrameFailed(e)
  \/ CaptureFrameOk
  \/ \E e \in MountErrs : MountFailed(e)
  \/ MountOk
  \/ \E e \in OpenErrs : FsOpenFailed(e)
  \/ FsOpenOk
  \/ \E fmt \in PngFormats, d \in BootDims : EncodeCall(fmt, d[1], d[2])
  \/ FsClose
  \/ Encoder

\* a peer that connects, subscribes, writes the capture command and goes
NextBoot ==
  \/ \E c \in ConnIds : connected(c, 0)
  \/ App
  \/ Worker
  \/ Drain
  \/ BootCapture

SpecBoot == Init /\ [][NextBoot]_vars

\* capture_png_to_sd has configured the camera and holds its frame buffers:
\* from the dequeued frame to the cleanup at its end
BootHoldsCamera == cap_pc \in {"frame", "mounted", "open"}

\* C33: the frame source is never used by two capture sequences at once:
\* capture_for_ble, run by the work handler, never goes through its
\* sequence (configure, enqueue, stream, dequeue, release) while the boot
\* capture of main holds the camera's frame buffers.
C33_CaptureSequencesExclusive ==
  [][(\E f \in Frames : CaptureOk(f)) => ~BootHoldsCamera]_vars

(***************************************************************************)
(* connected and disconnected alone, with a stack that has more than one   *)
(* connection object: links come up, fail to come up and go down in any    *)
(* order.                                                                  *)
(***************************************************************************)
\* connection objects of the stack in this specification
MaxPeers == 3
PeerIds == 1..MaxPeers

InitConn ==
  /\ current_conn = NULL
  /\ image_data_notify_enabled = FALSE
  /\ image_meta_notify_enabled = FALSE
  /\ capture_requested = FALSE
  /\ work_pending = FALSE
  /\ pc = "idle"
  /\ data = <<>>
  /\ size = 0
  /\ width = 0
  /\ height = 0
  /\ ret = 0
  /\ conn = NULL
  /\ chunk_size = 0
  /\ offset = 0
  /\ link = [c \in PeerIds |-> "free"]
  /\ refs = [c \in PeerIds |-> 0]
  /\ air = <<>>
  /\ rx_meta = <<>>
  /\ rx_buf = <<>>
  /\ rx_received = 0
  /\ outcome = "None"
  /\ jobs = 0
  /\ pending_origin = "none"
  /\ run_origin = "none"
  /\ disc_mid = FALSE
  /\ mtu_read = 0
  /\ meta_sent = 0
  /\ chunks = <<>>
  /\ rx_expect = <<>>
  /\ rx_ok = FALSE
  /\ rx_done = FALSE
  /\ PngIdle /\ CkIdle /\ CvIdle /\ CapIdle /\ FnIdle /\ JobIdle /\ AppIdle

NextConn ==
  \/ \E c \in PeerIds, err \in ConnErrs : connected(c, err)
  \/ \E c \in PeerIds : LinkDown(c)
  \/ \E c \in PeerIds : disconnected(c)

SpecConn == InitConn /\ [][NextConn]_vars

\* C34: once every connect and disconnect event has been handled, the
\* stored connection is non-null exactly when it refers to a peer that is
\* still connected (and some peer being connected, it is non-null), and the
\* references taken by the connect handler and not yet released are the one
\* of the stored connection: every other one was released, once.
C34_ConnectionLifecycle ==
  (\A c \in PeerIds : link[c] # "closing") =>
    /\ current_conn # NULL => link[current_conn] = "up"
    /\ (\E c \in PeerIds : link[c] = "up") => current_conn # NULL
    /\ \A c \in PeerIds : refs[c] = (IF c = current_conn THEN 1 ELSE 0)

(***************************************************************************)
(* The loop of send_image_data for every MTU the link can report: 0 for a  *)
(* connection that is no longer up, and from the 23 bytes every LE link    *)
(* starts with up to MaxMtu, and the largest uint16_t.  The state is the    *)
(* one after lines 1216-1226: the chunk size computed, offset 0.           *)
(***************************************************************************)
\* the largest ATT MTU exchanged
MaxMtu == 517

LinkMtus == {0} \cup (DEFAULT_MTU..MaxMtu) \cup {U16 - 1}

\* frames of one chunk, of a few and of many chunks
LoopFrames ==
  {Frame(n) : n \in {1, DEFAULT_MTU - ATT_OVERHEAD, DEFAULT_MTU - ATT_OVERHEAD + 1,
                     CHUNK_CAP, CHUNK_CAP + 1, (2 * CHUNK_CAP) + 1}}

InitLoop ==
  /\ \E f \in LoopFrames :
       /\ data = Image(f.seed, f.size)
       /\ size = f.size
       /\ width = f.width % U16
       /\ height = f.height % U16
  /\ \E mtu \in LinkMtus :
       /\ mtu_read = mtu
       /\ chunk_size = ChunkSize(mtu)
       /\ link = [c \in ConnIds |-> IF c # 1 THEN "free"
                                    ELSE IF mtu = 0 THEN "closing" ELSE "up"]
  /\ current_conn = 1
  /\ refs = [c \in ConnIds |-> IF c = 1 THEN 1 ELSE 0]
  /\ image_data_notify_enabled = TRUE
  /\ image_meta_notify_enabled = TRUE
  /\ capture_requested = TRUE
  /\ work_pending = FALSE
  /\ pc = "stream"
  /\ ret = 0
  /\ conn = 1
  /\ offset = 0
  /\ air = <<>>
  /\ rx_meta = <<>>
  /\ rx_buf = <<>>
  /\ rx_received = 0
  /\ outcome = "None"
  /\ jobs = 1
  /\ pending_origin = "none"
  /\ run_origin = "idle"
  /\ disc_mid = FALSE
  /\ meta_sent = 1
  /\ chunks = <<>>
  /\ rx_expect = <<>>
  /\ rx_ok = FALSE
  /\ rx_done = FALSE
  /\ PngIdle
  /\ CkIdle
  /\ CvIdle
  /\ CapIdle
  /\ FnIdle
  /\ JobIdle
  /\ AppIdle

NextLoop ==
  \/ SendChunk
  \/ StreamDone
  \/ Drain
  \/ \E c \in ConnIds : LinkDown(c)
  \/ \E c \in ConnIds : disconnected(c)

SpecLoop == InitLoop /\ [][NextLoop]_vars

\* C35: the streaming loop terminates: for every image size and every MTU
\* the link can report the chunk size is at least 1; a send that succeeds
\* advances the offset by at least one byte and never past the size; the
\* loop has made at most ceil(size / chunk_size) sends; a failed send ends
\* it at once; and as long as bytes are left the loop is not stuck.
C35_StreamingTerminates ==
  /\ [](pc = "stream" =>
          /\ chunk_size >= 1
          /\ Len(chunks) <= (size + chunk_size - 1) \div chunk_size
          /\ offset <= size
          /\ (offset = size) \/ (Len(chunks) < (size + chunk_size - 1) \div chunk_size))
  /\ [][(pc = "stream" /\ Len(chunks') > Len(chunks))
          => (offset' >= offset + 1 /\ Len(chunks') = Len(chunks) + 1)]_vars
  /\ [][(pc = "stream" /\ ret' < 0) => pc' = "idle"]_vars
  /\ [][(pc = "stream" /\ pc' = "stream" /\ offset' = offset)
          => chunks' = chunks]_vars

\* with the default MTU the 489-byte frame went out in 25 chunks of at
\* most 20 bytes
C35_Witness ==
  /\ pc = "stream"
  /\ mtu_read = DEFAULT_MTU
  /\ chunk_size = DEFAULT_MTU - ATT_OVERHEAD
  /\ size = (2 * CHUNK_CAP) + 1
  /\ offset = size
  /\ Len(chunks) = 25

(***************************************************************************)
(* fs_write_all over a sink.  fn_args holds len and the sink: the most it  *)
(* takes in one fs_write (burst), the room it has left, and what fs_write  *)
(* returns once the room is used up: an error, or 0 bytes written.         *)
(* fn_ret holds offset, the bytes of data the sink took, by index and in   *)
(* the order taken, and the value returned.                                *)
(***************************************************************************)
\* the longest buffer written
MaxWriteLen == 4

WriteSinks ==
  [burst : 1..MaxWriteLen, room : 0..(MaxWriteLen + 1), err : {0} \cup SinkErrs]

\* fs_write(file, data + offset, req) on sink k with room left
fs_write(k, room, req) ==
  IF room = 0 THEN k.err ELSE Min(Min(req, k.burst), room)

\* one iteration of the loop of fs_write_all, lines 417-423
WriteAllStep ==
  /\ fn_pc = "fs_write_all"
  /\ fn_ret.offset < fn_args[1]
  /\ LET wrote == fs_write(fn_args[2], fn_ret.room, fn_args[1] - fn_ret.offset)
     IN  IF wrote < 0
           THEN /\ fn_pc' = "returned"
                /\ fn_ret' = [fn_ret EXCEPT !.ret = wrote]
           ELSE /\ fn_pc' = fn_pc
                /\ fn_ret' = [fn_ret EXCEPT
                                !.offset = @ + wrote,
                                !.room = @ - wrote,
                                !.handed = @ \o [i \in 1..wrote |-> fn_ret.offset + i]]
  /\ UNCHANGED fn_args
  /\ UNCHANGED fnFrame

\* the loop is over: return 0, line 424
WriteAllDone ==
  /\ fn_pc = "fs_write_all"
  /\ ~(fn_ret.offset < fn_args[1])
  /\ fn_pc' = "returned"
  /\ fn_ret' = [fn_ret EXCEPT !.ret = 0]
  /\ UNCHANGED fn_args
  /\ UNCHANGED fnFrame

InitWriteAll ==
  /\ BleInit /\ PngIdle /\ CkIdle /\ CvIdle /\ CapIdle /\ JobIdle /\ AppIdle
  /\ fn_pc = "fs_write_all"
  /\ \E len \in 0..MaxWriteLen, k \in WriteSinks : fn_args = <<len, k>>
  /\ fn_ret = [offset |-> 0, room |-> fn_args[2].room, handed |-> <<>>, ret |-> 0]

NextWriteAll == WriteAllStep \/ WriteAllDone

\* the thread that called fs_write_all keeps running it
SpecWriteAll ==
  InitWriteAll /\ [][NextWriteAll]_vars /\ WF_vars(WriteAllStep) /\ WF_vars(WriteAllDone)

\* what the sink has taken is data[0 .. offset), in order
WriteAllInOrder ==
  /\ fn_ret.handed = [i \in 1..fn_ret.offset |-> i]
  /\ fn_ret.offset <= fn_args[1]
  /\ (fn_pc = "returned" /\ fn_ret.ret = 0) => fn_ret.offset = fn_args[1]
  /\ (fn_pc = "returned" /\ fn_ret.ret # 0) => fn_ret.ret = fn_args[2].err

\* C36: fs_write_all terminates for every sink; it returns 0 only after
\* exactly len bytes were handed to the sink in order, each short write
\* being resumed at the first unwritten byte; a negative result of the sink
\* is returned at once; a sink that takes 0 bytes does not make it loop
\* for ever.
C36_WriteAllTerminates ==
  /\ <>(fn_pc = "returned")
  /\ []WriteAllInOrder

(***************************************************************************)
(* The firmware and BleService over any number of sessions: the peer       *)
(* connects, subscribes, writes the capture command, loses the link and    *)
(* connects again; BleService keeps _currentMetadata, _imageBuffer and     *)
(* _receivedBytes from one session to the next.                            *)
(***************************************************************************)
\* the frames of these sessions: one chunk and two chunks of a default-MTU
\* link
SessionFrames ==
  {Frame(DEFAULT_MTU - ATT_OVERHEAD), Frame(2 * (DEFAULT_MTU - ATT_OVERHEAD))}

\* capture_work_handler on the workqueue thread
SessionWorker ==
  \/ WorkerTake
  \/ CheckSession
  \/ \E f \in SessionFrames : CaptureOk(f)
  \/ CaptureFail
  \/ SendMeta
  \/ CallSendData
  \/ SendChunk
  \/ StreamDone

NextSessions ==
  \/ \E c \in ConnIds : connected(c, 0)
  \/ image_data_ccc_changed(BT_GATT_CCC_NOTIFY)
  \/ capture_write(<<CMD_CAPTURE>>)
  \/ \E c \in ConnIds : LinkDown(c)
  \/ \E c \in ConnIds : disconnected(c)
  \/ SessionWorker
  \/ Receive

SpecSessions == Init /\ [][NextSessions]_vars

\* BleService takes the oldest notification in flight
Receives(ch) ==
  air # <<>> /\ air' = Tail(air) /\ link' = link /\ Head(air).ch = ch

\* _onImageDataReceived hands an image to the listeners of imageReceived
Delivers == Receives("data") /\ rx_meta # <<>> /\ rx_meta' = <<>>

\* the image delivered is made of bytes received for the job whose metadata
\* record opened the accumulation, a job that is over, and of a chunk of
\* another job
MixesJobs ==
  /\ rx_ok
  /\ rx_received > 0
  /\ Head(air).job # rx_expect

MaxReadWidth == 16

\* one iteration of the loop over x of png_write_rgb565, lines 605-615:
\* row[2 * x] and row[2 * x + 1]
Rgb565Reads ==
  /\ fn_pc = "rgb565"
  /\ fn_ret.x < fn_args[1]
  /\ fn_ret' = [x |-> fn_ret.x + 1,
                reads |-> fn_ret.reads \cup {2 * fn_ret.x, 2 * fn_ret.x + 1}]
  /\ UNCHANGED <<fn_pc, fn_args>>
  /\ UNCHANGED fnFrame

\* one iteration of the loop over x of png_write_yuyv, lines 730-756:
\* row[(x * 2) + 0] to row[(x * 2) + 3], whether or not x + 1 < width
YuyvReads ==
  /\ fn_pc = "yuyv"
  /\ fn_ret.x < fn_args[1]
  /\ fn_ret' = [x |-> fn_ret.x + 2,
                reads |-> fn_ret.reads \cup
                            {(fn_ret.x * 2) + k : k \in 0..3}]
  /\ UNCHANGED <<fn_pc, fn_args>>
  /\ UNCHANGED fnFrame

\* the loop over x is over
RowReadDone ==
  /\ fn_pc \in {"rgb565", "yuyv"}
  /\ ~(fn_ret.x < fn_args[1])
  /\ fn_pc' = "row_done"
  /\ UNCHANGED <<fn_args, fn_ret>>
  /\ UNCHANGED fnFrame

InitReads ==
  /\ BleInit /\ PngIdle /\ CkIdle /\ CvIdle /\ CapIdle /\ JobIdle /\ AppIdle
  /\ fn_pc \in {"rgb565", "yuyv"}
  /\ \E w \in 1..MaxReadWidth : fn_args = <<w>>
  /\ fn_ret = [x |-> 0, reads |-> {}]

NextReads == Rgb565Reads \/ YuyvReads \/ RowReadDone

SpecReads == InitReads /\ [][NextReads]_vars

\* C38: the colour converters never read a source byte outside the
\* 2*width bytes of the row being converted: RGB565 reads bytes
\* 0..2*width-1 only, and YUYV reads no byte at index >= 2*width, also for
\* an odd width, where the last group is incomplete.
C38_ReadsInsideRow ==
  \A i \in fn_ret.reads : 0 <= i /\ i < 2 * fn_args[1]

====
